---- MODULE Spec2Model ----
(***************************************************************************)
(* BookStack folder synchronizer (bookstack_folder_sync.py) and folder     *)
(* downloader (bookstack_folder_download.py).                              *)
(*                                                                         *)
(* Strings are sequences of one-character strings, so that the regular     *)
(* expressions, strip(), replace() and sorting of the source are computed  *)
(* character by character.                                                 *)
(***************************************************************************)
EXTENDS Integers, Sequences, FiniteSets, TLC

VARIABLES
    codec,          \* SpecCodec: the codec functions' input and the results so far
    eq,             \* SpecEq: contents_equal's input and its result
    conv,           \* SpecConv: the downloader's conversion input and its result
    img,            \* SpecImg: inline_images' input and its results
    lst,            \* SpecList: a paginated listing in progress
    tool,           \* the script that runs: "sync", "download" or "off"
    pc,             \* the position of main()
    exit_status,    \* the process exit status, "running" until it ends
    disk,           \* the local tree below the content / output root
    remote,         \* the BookStack server: books, chapters, pages, next id
    net,            \* the _request call in progress
    log,            \* every API call made so far (history)
    loc,            \* the local variables of main()
    has_markdown    \* whether the markdown package can be imported

vars == <<codec, eq, conv, img, lst, tool, pc, exit_status, disk, remote, net, log, loc, has_markdown>>

run_vars == <<tool, pc, exit_status, disk, remote, net, log, loc, has_markdown>>

pure_vars == <<codec, eq, conv, img, lst>>
env_vars == <<tool, disk, has_markdown>>

----------------------------------------------------------------------------
(* Characters *)

Digits == {"0", "1", "2", "3", "4", "5", "6", "7", "8", "9"}

\* Python's \s and str.strip() whitespace, restricted to the characters used
Whitespace == {" ", "\t", "\n", "\r"}

\* the characters of the model in code point order (str comparison, str.lower)
CharOrder ==
    <<"\t", "\n", "\r", " ", "!", "\"", "%", "(", ")", "*", "+", ",", "-", ".", "/",
      "0", "1", "2", "3", "4", "5", "6", "7", "8", "9", ":", ";", "<", "=", ">", "?",
      "A", "B", "C", "D", "E", "F", "G", "H", "I", "J", "K", "L", "M",
      "N", "O", "P", "Q", "R", "S", "T", "U", "V", "W", "X", "Y", "Z",
      "[", "\\", "]", "_",
      "a", "b", "c", "d", "e", "f", "g", "h", "i", "j", "k", "l", "m",
      "n", "o", "p", "q", "r", "s", "t", "u", "v", "w", "x", "y", "z", "|">>

Ord(c) == CHOOSE i \in 1..Len(CharOrder) : CharOrder[i] = c

UpperFirst == Ord("A")
LowerFirst == Ord("a")

\* str.lower() on one character
LowerChar(c) ==
    IF Ord(c) >= UpperFirst /\ Ord(c) < UpperFirst + 26
    THEN CharOrder[Ord(c) - UpperFirst + LowerFirst]
    ELSE c

\* str.lower()
Lower(s) == [i \in 1..Len(s) |-> LowerChar(s[i])]

\* s < t for Python str (lexicographic by code point)
RECURSIVE StrLess(_, _)
StrLess(s, t) ==
    IF t = <<>> THEN FALSE
    ELSE IF s = <<>> THEN TRUE
    ELSE IF s[1] = t[1] THEN StrLess(Tail(s), Tail(t))
    ELSE Ord(s[1]) < Ord(t[1])

----------------------------------------------------------------------------
(* String helpers *)

\* s[from:] (1-based, from may be Len(s)+1)
Drop(s, n) == SubSeq(s, n + 1, Len(s))

\* number of leading characters of s in set cs
RECURSIVE LeadingRun(_, _)
LeadingRun(s, cs) ==
    IF s # <<>> /\ s[1] \in cs THEN 1 + LeadingRun(Tail(s), cs) ELSE 0

\* number of trailing characters of s in set cs
RECURSIVE TrailingRun(_, _)
TrailingRun(s, cs) ==
    IF s # <<>> /\ s[Len(s)] \in cs
    THEN 1 + TrailingRun(SubSeq(s, 1, Len(s) - 1), cs)
    ELSE 0

\* str.rstrip(chars)
RStrip(s, cs) == SubSeq(s, 1, Len(s) - TrailingRun(s, cs))

\* str.lstrip(chars)
LStrip(s, cs) == Drop(s, LeadingRun(s, cs))

\* str.strip(): leading and trailing whitespace removed
Strip(s) == RStrip(LStrip(s, Whitespace), Whitespace)

\* str.replace(c, d) for single characters, re.sub of a one-character class
ReplaceChars(s, cs, d) == [i \in 1..Len(s) |-> IF s[i] \in cs THEN d ELSE s[i]]

\* re.sub(r"\s+", " ", s): every maximal run of whitespace becomes one space
RECURSIVE CollapseWhitespace(_)
CollapseWhitespace(s) ==
    IF s = <<>> THEN <<>>
    ELSE IF s[1] \in Whitespace
         THEN <<" ">> \o CollapseWhitespace(LStrip(s, Whitespace))
         ELSE <<s[1]>> \o CollapseWhitespace(Tail(s))

\* int(two digits)
DigitValue(c) == Ord(c) - Ord("0")

\* str(n) for n >= 0
RECURSIVE IntToStr(_)
IntToStr(n) ==
    IF n < 10 THEN <<CharOrder[Ord("0") + n]>>
    ELSE IntToStr(n \div 10) \o <<CharOrder[Ord("0") + (n % 10)]>>

----------------------------------------------------------------------------
(* Naming / ordering codec *)

\* float('inf'): the order of a name without a two-digit prefix
Unordered == -1

\* Optional values (Python None or a value): <<>> or <<v>>
Nothing == <<>>
Some(v) == <<v>>
IsSome(o) == o # <<>>
Get(o) == o[1]

\* a page or chapter whose "priority" is None
NoPriority == -2

\* the separators of TWO_DIGIT_PREFIX: [\s\-_]
PrefixSeparators == Whitespace \cup {"-", "_"}

\* TWO_DIGIT_PREFIX.match(name): the end of the match (m.end()), or 0 for no match.
\* ^\s*(\d{2})[\s\-_]+ : leading whitespace, exactly two digits, one or more separators
TwoDigitPrefixEnd(name) ==
    LET ws   == LeadingRun(name, Whitespace)
        rest == Drop(name, ws)
    IN  IF Len(rest) >= 3 /\ rest[1] \in Digits /\ rest[2] \in Digits
           /\ rest[3] \in PrefixSeparators
        THEN ws + 2 + LeadingRun(Drop(rest, 2), PrefixSeparators)
        ELSE 0

\* a variant that takes the first two digits as the order whatever follows them
strip_two_digit_prefix_no_separator(name) ==
    LET ws   == LeadingRun(name, Whitespace)
        rest == Drop(name, ws)
    IN  IF Len(rest) >= 2 /\ rest[1] \in Digits /\ rest[2] \in Digits
        THEN [order |-> 10 * DigitValue(rest[1]) + DigitValue(rest[2]),
              title |-> Strip(LStrip(Drop(rest, 2), PrefixSeparators))]
        ELSE [order |-> Unordered, title |-> Strip(name)]

\* strip_two_digit_prefix(name) -> (order, rest)
strip_two_digit_prefix(name) ==
    LET e  == TwoDigitPrefixEnd(name)
        ws == LeadingRun(name, Whitespace)
    IN  IF e > 0
        THEN [order |-> 10 * DigitValue(name[ws + 1]) + DigitValue(name[ws + 2]),
              title |-> Strip(Drop(name, e))]
        ELSE [order |-> Unordered, title |-> Strip(name)]

\* index of the last "." of s, 0 if none
RECURSIVE LastDot(_)
LastDot(s) ==
    IF s = <<>> THEN 0
    ELSE IF s[Len(s)] = "." THEN Len(s)
    ELSE LastDot(SubSeq(s, 1, Len(s) - 1))

\* Path(filename).stem: the name without its last suffix; a name whose last dot
\* is its first or its last character has no suffix
Stem(filename) ==
    LET d == LastDot(filename)
    IN  IF d > 1 /\ d < Len(filename)
        THEN SubSeq(filename, 1, d - 1)
        ELSE filename

\* a variant that keeps the numeric prefix in the title
title_from_filename_keep_prefix(filename) ==
    LET stem == Stem(filename)
        d    == strip_two_digit_prefix(stem)
        rest == Strip(ReplaceChars(stem, {"_", "-"}, " "))
    IN  [order |-> d.order, title |-> IF rest # <<>> THEN rest ELSE stem]

\* title_from_filename(filename) -> (order, title)
title_from_filename(filename) ==
    LET stem == Stem(filename)
        d    == strip_two_digit_prefix(stem)
        rest == Strip(ReplaceChars(d.title, {"_", "-"}, " "))
    IN  [order |-> d.order, title |-> IF rest # <<>> THEN rest ELSE stem]

\* INVALID_FS_CHARS: [\\/:*?"<>|]
INVALID_FS_CHARS == {"\\", "/", ":", "*", "?", "\"", "<", ">", "|"}

Untitled == <<"u", "n", "t", "i", "t", "l", "e", "d">>

\* sanitize_name with rstrip(".") in place of rstrip(" .")
sanitize_name_rstrip_dots(name) ==
    LET a == ReplaceChars(name, INVALID_FS_CHARS, "_")
        b == Strip(CollapseWhitespace(a))
        c == RStrip(b, {"."})
    IN  IF c = <<>> THEN Untitled ELSE c

\* sanitize_name(name)
sanitize_name(name) ==
    LET a == ReplaceChars(name, INVALID_FS_CHARS, "_")
        b == Strip(CollapseWhitespace(a))
        c == RStrip(b, {" ", "."})
    IN  IF c = <<>> THEN Untitled ELSE c

\* prefixed_name(priority, title); priority may be None (NoPriority)
prefixed_name(priority, title) ==
    LET safe == sanitize_name(title)
    IN  IF priority = NoPriority THEN safe
        ELSE LET n == IntToStr(priority)
                 p == IF Len(n) < 2 THEN <<"0">> \o n ELSE n
             IN  p \o <<" ">> \o safe

----------------------------------------------------------------------------
(* Content equivalence *)

\* markdown.markdown(md, extensions=[]) on plain paragraph text (the library is
\* not part of the repository): blank text renders to "", other text to one
\* paragraph of the stripped text
MarkdownLibRender(md) ==
    IF Strip(md) = <<>> THEN <<>>
    ELSE <<"<", "p", ">">> \o Strip(md) \o <<"<", "/", "p", ">">>

\* render_markdown_to_html(md): None when the markdown package cannot be imported
render_markdown_to_html(md, markdown_lib) ==
    IF markdown_lib THEN Some(MarkdownLibRender(md)) ELSE Nothing

\* contents_equal that takes the page for unchanged when it cannot compare
contents_equal_assume_same(new_markdown, existing_page, markdown_lib) ==
    IF IsSome(existing_page.markdown)
    THEN Strip(new_markdown) = Strip(Get(existing_page.markdown))
    ELSE IF IsSome(existing_page.html)
    THEN LET rendered == render_markdown_to_html(new_markdown, markdown_lib)
         IN  IF ~IsSome(rendered) THEN TRUE
             ELSE Strip(Get(rendered)) = Strip(Get(existing_page.html))
    ELSE TRUE

\* contents_equal that strips trailing whitespace only
contents_equal_rstrip(new_markdown, existing_page, markdown_lib) ==
    IF IsSome(existing_page.markdown)
    THEN RStrip(new_markdown, Whitespace) = RStrip(Get(existing_page.markdown), Whitespace)
    ELSE IF IsSome(existing_page.html)
    THEN LET rendered == render_markdown_to_html(new_markdown, markdown_lib)
         IN  IF ~IsSome(rendered) THEN FALSE
             ELSE Strip(Get(rendered)) = Strip(Get(existing_page.html))
    ELSE FALSE

\* contents_equal(new_markdown, existing_page); markdown_lib: whether the
\* markdown package is importable in this run
contents_equal(new_markdown, existing_page, markdown_lib) ==
    IF IsSome(existing_page.markdown)
    THEN Strip(new_markdown) = Strip(Get(existing_page.markdown))
    ELSE IF IsSome(existing_page.html)
    THEN LET rendered == render_markdown_to_html(new_markdown, markdown_lib)
         IN  IF ~IsSome(rendered) THEN FALSE
             ELSE Strip(Get(rendered)) = Strip(Get(existing_page.html))
    ELSE FALSE

----------------------------------------------------------------------------
(* Local file system: a path is the sequence of names below the content root;
   files is a set of [path, content]; dirs is a set of paths *)

PathExists(fs, path) ==
    path \in fs.dirs \/ \E f \in fs.files : f.path = path

IsFile(fs, path) == \E f \in fs.files : f.path = path

\* the stored content of a file (read_bytes)
ReadFile(fs, path) == (CHOOSE f \in fs.files : f.path = path).content

\* text-mode decoding with universal newlines: "\r\n" and "\r" are read as "\n"
RECURSIVE UniversalNewlines(_)
UniversalNewlines(s) ==
    IF s = <<>> THEN <<>>
    ELSE IF s[1] = "\r"
    THEN <<"\n">> \o UniversalNewlines(
                        IF Len(s) >= 2 /\ s[2] = "\n" THEN Drop(s, 2) ELSE Tail(s))
    ELSE <<s[1]>> \o UniversalNewlines(Tail(s))

\* path.read_text(encoding="utf-8")
ReadText(fs, path) == UniversalNewlines(ReadFile(fs, path))

\* s split at every "/" (the names of a relative reference)
RECURSIVE SplitSlash(_)
SplitSlash(s) ==
    LET n == LeadingRun(s, {c \in {s[i] : i \in 1..Len(s)} : c # "/"})
    IN  IF n = Len(s) THEN (IF s = <<>> THEN <<>> ELSE <<s>>)
        ELSE (IF n = 0 THEN <<>> ELSE <<SubSeq(s, 1, n)>>) \o SplitSlash(Drop(s, n + 1))

\* Path.suffix.lower(): the last suffix of a file name, "" if none
SuffixLower(name) ==
    LET d == LastDot(name)
    IN  IF d > 1 /\ d < Len(name) THEN Lower(Drop(name, d - 1)) ELSE <<>>

----------------------------------------------------------------------------
(* Markdown image inlining *)

IMG_EXTS ==
    {<<".", "p", "n", "g">>, <<".", "j", "p", "g">>, <<".", "j", "p", "e", "g">>,
     <<".", "g", "i", "f">>, <<".", "w", "e", "b", "p">>, <<".", "s", "v", "g">>}

\* the MIME type of a recognized extension (mimetypes.guess_type and the
\* built-in table agree on these)
MimeOf(ext) ==
    CASE ext = <<".", "p", "n", "g">> -> <<"i", "m", "a", "g", "e", "/", "p", "n", "g">>
      [] ext \in {<<".", "j", "p", "g">>, <<".", "j", "p", "e", "g">>} ->
            <<"i", "m", "a", "g", "e", "/", "j", "p", "e", "g">>
      [] ext = <<".", "g", "i", "f">> -> <<"i", "m", "a", "g", "e", "/", "g", "i", "f">>
      [] ext = <<".", "w", "e", "b", "p">> -> <<"i", "m", "a", "g", "e", "/", "w", "e", "b", "p">>
      [] OTHER -> <<"i", "m", "a", "g", "e", "/", "s", "v", "g", "+", "x", "m", "l">>

Base64Alphabet ==
    <<"A", "B", "C", "D", "E", "F", "G", "H", "I", "J", "K", "L", "M",
      "N", "O", "P", "Q", "R", "S", "T", "U", "V", "W", "X", "Y", "Z",
      "a", "b", "c", "d", "e", "f", "g", "h", "i", "j", "k", "l", "m",
      "n", "o", "p", "q", "r", "s", "t", "u", "v", "w", "x", "y", "z",
      "0", "1", "2", "3", "4", "5", "6", "7", "8", "9", "+", "/">>

B64(n) == Base64Alphabet[n + 1]

\* base64.b64encode(data) of a sequence of bytes (0..255)
RECURSIVE Base64(_)
Base64(data) ==
    IF data = <<>> THEN <<>>
    ELSE IF Len(data) = 1
    THEN <<B64(data[1] \div 4), B64((data[1] % 4) * 16), "=", "=">>
    ELSE IF Len(data) = 2
    THEN <<B64(data[1] \div 4), B64((data[1] % 4) * 16 + data[2] \div 16),
           B64((data[2] % 16) * 4), "=">>
    ELSE <<B64(data[1] \div 4), B64((data[1] % 4) * 16 + data[2] \div 16),
           B64((data[2] % 16) * 4 + data[3] \div 64), B64(data[3] % 64)>>
         \o Base64(Drop(data, 3))

\* to_data_uri(path): None unless path is a file with a recognized extension
to_data_uri(fs, path) ==
    IF ~IsFile(fs, path) THEN Nothing
    ELSE LET ext == SuffixLower(path[Len(path)])
         IN  IF ext \notin IMG_EXTS THEN Nothing
             ELSE Some(<<"d", "a", "t", "a", ":">> \o MimeOf(ext)
                       \o <<";", "b", "a", "s", "e", "6", "4", ",">>
                       \o Base64(ReadFile(fs, path)))

\* a variant that looks in the content root before the page's directory
resolve_image_root_first(fs, ref, page_dir) ==
    LET rel == SplitSlash(ref)
    IN  IF PathExists(fs, rel) THEN Some(rel)
        ELSE IF PathExists(fs, page_dir \o rel) THEN Some(page_dir \o rel)
        ELSE Nothing

\* resolve_image(ref, page_dir, content_root): the page's directory first, then
\* the content root (<<>>); references are relative and hold no ".." here
resolve_image(fs, ref, page_dir) ==
    LET rel == SplitSlash(ref)
    IN  IF PathExists(fs, page_dir \o rel) THEN Some(page_dir \o rel)
        ELSE IF PathExists(fs, rel) THEN Some(rel)
        ELSE Nothing

\* ref.replace("%20", " ")
RECURSIVE ReplacePercent20(_)
ReplacePercent20(s) ==
    IF Len(s) >= 3 /\ SubSeq(s, 1, 3) = <<"%", "2", "0">>
    THEN <<" ">> \o ReplacePercent20(Drop(s, 3))
    ELSE IF s = <<>> THEN <<>>
    ELSE <<s[1]>> \o ReplacePercent20(Tail(s))

\* number of leading characters of s not in set cs
RECURSIVE LeadingRunNot(_, _)
LeadingRunNot(s, cs) ==
    IF s # <<>> /\ s[1] \notin cs THEN 1 + LeadingRunNot(Tail(s), cs) ELSE 0

\* MD_IMAGE_RE matched at the start of s:
\*   !\[([^\]]*)\]\(([^)\s]+)(?:\s+"[^"]*")?\)
\* [len |-> length of the match (0: no match), alt, ref]
ImageMatch(s) ==
    LET noMatch == [len |-> 0, alt |-> <<>>, ref |-> <<>>]
    IN  IF ~(Len(s) >= 2 /\ s[1] = "!" /\ s[2] = "[") THEN noMatch
        ELSE
        LET a     == LeadingRunNot(Drop(s, 2), {"]"})
            afterAlt == Drop(s, 2 + a)
        IN  IF ~(Len(afterAlt) >= 2 /\ afterAlt[1] = "]" /\ afterAlt[2] = "(")
            THEN noMatch
            ELSE
            LET r        == LeadingRunNot(Drop(afterAlt, 2), {")"} \cup Whitespace)
                afterRef == Drop(afterAlt, 2 + r)
                w        == LeadingRun(afterRef, Whitespace)
                afterWs  == Drop(afterRef, w)
                t        == LeadingRunNot(Drop(afterWs, 1), {"\""})
                afterTitle == Drop(afterWs, 1 + t)
                found(n) == [len |-> n, alt |-> SubSeq(s, 3, 2 + a),
                             ref |-> SubSeq(afterAlt, 3, 2 + r)]
            IN  IF r = 0 THEN noMatch
                ELSE IF afterRef # <<>> /\ afterRef[1] = ")"
                THEN found(2 + a + 2 + r + 1)
                ELSE IF w > 0 /\ afterWs # <<>> /\ afterWs[1] = "\""
                        /\ Len(afterTitle) >= 2 /\ afterTitle[1] = "\""
                        /\ afterTitle[2] = ")"
                THEN found(2 + a + 2 + r + w + 1 + t + 2)
                ELSE noMatch

\* _replace(m): the rewritten reference, or the matched text unchanged
ImageReplace(fs, m, matched, page_dir) ==
    LET img_path == resolve_image(fs, ReplacePercent20(m.ref), page_dir)
        data_uri == IF IsSome(img_path) THEN to_data_uri(fs, Get(img_path)) ELSE Nothing
    IN  IF IsSome(data_uri)
        THEN <<"!", "[">> \o m.alt \o <<"]", "(">> \o Get(data_uri) \o <<")">>
        ELSE matched

\* inline_images(markdown, page_dir, content_root)
RECURSIVE inline_images(_, _, _)
inline_images(fs, markdown, page_dir) ==
    IF markdown = <<>> THEN <<>>
    ELSE LET m == ImageMatch(markdown)
         IN  IF m.len > 0
             THEN ImageReplace(fs, m, SubSeq(markdown, 1, m.len), page_dir)
                  \o inline_images(fs, Drop(markdown, m.len), page_dir)
             ELSE <<markdown[1]>> \o inline_images(fs, Tail(markdown), page_dir)

----------------------------------------------------------------------------
(* The BookStack server, as far as the scripts use it *)

\* a root page's chapter_id (falsy); also chapter_id=None in find_page / create_page
NoChapter == 0

\* SQL LIKE without %: "_" matches any one character, letters match in any case
LikeMatch(pattern, name) ==
    /\ Len(pattern) = Len(name)
    /\ \A i \in 1..Len(name) :
          pattern[i] = "_" \/ LowerChar(pattern[i]) = LowerChar(name[i])

\* the HTML the server stores for submitted markdown
ServerRender(md) == MarkdownLibRender(md)

\* the items of S in the order of their ids (the order the server lists them in)
RECURSIVE ById(_)
ById(S) ==
    IF S = {} THEN <<>>
    ELSE LET m == CHOOSE x \in S : \A y \in S : x.id <= y.id
         IN  <<m>> \o ById(S \ {m})

\* a listing response: the `count` items of page number `page` as "data"; the
\* response of the server carries no "next" field
ListPage(items, count, page) ==
    [data |-> SubSeq(items, (page - 1) * count + 1,
                     IF page * count < Len(items) THEN page * count ELSE Len(items)),
     next |-> FALSE]

\* the data of a successful response to request r, and the server's state after it
ServerHandle(srv, r) ==
    CASE r.method = "GET" /\ r.kind = "books" ->
            [remote |-> srv,
             data |-> {b \in srv.books : LikeMatch(r.body.name, b.name)}]
      [] r.method = "GET" /\ r.kind = "chapters" ->
            [remote |-> srv,
             data |-> {c \in srv.chapters :
                          /\ c.book_id = r.body.book_id
                          /\ LikeMatch(r.body.name, c.name)}]
      [] r.method = "GET" /\ r.kind = "pages" ->
            [remote |-> srv,
             data |-> {p \in srv.pages :
                          /\ p.book_id = r.body.book_id
                          /\ LikeMatch(r.body.name, p.name)
                          /\ ("chapter_id" \in DOMAIN r.body
                                => p.chapter_id = r.body.chapter_id)}]
      [] r.method = "GET" /\ r.kind = "list_pages" ->
            [remote |-> srv,
             data |-> ListPage(ById({p \in srv.pages :
                                       /\ ("book_id" \in DOMAIN r.body
                                             => p.book_id = r.body.book_id)
                                       /\ ("chapter_id" \in DOMAIN r.body
                                             => p.chapter_id = r.body.chapter_id)}),
                               r.body.count, r.body.page)]
      [] r.method = "GET" /\ r.kind = "list_chapters" ->
            [remote |-> srv,
             data |-> ListPage(ById({c \in srv.chapters : c.book_id = r.body.book_id}),
                               r.body.count, r.body.page)]
      [] r.method = "GET" /\ r.kind = "page" ->
            [remote |-> srv,
             data |-> CHOOSE p \in srv.pages : p.id = r.target]
      [] r.method = "POST" /\ r.kind = "pages" ->
            LET ch  == IF "chapter_id" \in DOMAIN r.body THEN r.body.chapter_id
                       ELSE NoChapter
                bk  == IF "book_id" \in DOMAIN r.body THEN r.body.book_id
                       ELSE (CHOOSE c \in srv.chapters : c.id = ch).book_id
                new == [id |-> srv.next_id, book_id |-> bk, chapter_id |-> ch,
                        name |-> r.body.name, priority |-> r.body.priority,
                        markdown |-> Some(r.body.markdown),
                        html |-> Some(ServerRender(r.body.markdown))]
            IN  [remote |-> [srv EXCEPT !.pages = @ \cup {new}, !.next_id = @ + 1],
                 data |-> new]
      [] r.method = "PUT" /\ r.kind = "page" ->
            LET old == CHOOSE p \in srv.pages : p.id = r.target
                a   == IF "priority" \in DOMAIN r.body
                       THEN [old EXCEPT !.priority = r.body.priority] ELSE old
                new == IF "markdown" \in DOMAIN r.body
                       THEN [a EXCEPT !.markdown = Some(r.body.markdown),
                                      !.html = Some(ServerRender(r.body.markdown))]
                       ELSE a
            IN  [remote |-> [srv EXCEPT !.pages = (@ \ {old}) \cup {new}],
                 data |-> new]
      [] r.method = "POST" /\ r.kind = "chapters" ->
            LET new == [id |-> srv.next_id, book_id |-> r.body.book_id,
                        name |-> r.body.name, priority |-> r.body.priority]
            IN  [remote |-> [srv EXCEPT !.chapters = @ \cup {new}, !.next_id = @ + 1],
                 data |-> new]
      [] r.method = "PUT" /\ r.kind = "chapter" ->
            LET old == CHOOSE c \in srv.chapters : c.id = r.target
                new == [old EXCEPT !.priority = r.body.priority]
            IN  [remote |-> [srv EXCEPT !.chapters = (@ \ {old}) \cup {new}],
                 data |-> new]

----------------------------------------------------------------------------
(* BookStackClient._request *)

\* rate_limit_sleep = 0.5 seconds, in milliseconds
RateLimitSleepMs == 500

Idle == [state |-> "idle"]

\* the state of _request(method, path, params / json) as it enters its loop
NewRequest(method, kind, target, body) ==
    [state |-> "pending", method |-> method, kind |-> kind, target |-> target,
     body |-> body, attempt |-> 0, sent |-> 0, sleeps |-> <<>>, status |-> 0,
     resp |-> Nothing, error |-> Nothing]

\* a variant that gives up at the first 5xx response
request_iteration_fatal_5xx(r, code, text, data) ==
    LET answered == [r EXCEPT !.sent = @ + 1]
        slept    == [answered EXCEPT
                        !.sleeps = Append(@, RateLimitSleepMs * (r.attempt + 1)),
                        !.attempt = @ + 1]
        continue == IF slept.attempt < 5 THEN slept
                    ELSE [slept EXCEPT !.state = "raised", !.status = code,
                                       !.error = Some([message |-> "failed after retries"])]
    IN  IF code = 429 THEN continue
        ELSE IF 200 <= code /\ code < 300
        THEN [answered EXCEPT !.state = "returned", !.status = code, !.resp = Some(data)]
        ELSE [answered EXCEPT
                 !.state = "raised", !.status = code,
                 !.error = Some([message |-> "failed", status |-> code, text |-> text])]

\* a variant that retries after every 4xx response as it does after 429
request_iteration_retry_4xx(r, code, text, data) ==
    LET answered == [r EXCEPT !.sent = @ + 1]
        slept    == [answered EXCEPT
                        !.sleeps = Append(@, RateLimitSleepMs * (r.attempt + 1)),
                        !.attempt = @ + 1]
        continue == IF slept.attempt < 5 THEN slept
                    ELSE [slept EXCEPT !.state = "raised", !.status = code,
                                       !.error = Some([message |-> "failed after retries"])]
    IN  IF 400 <= code /\ code < 500 THEN continue
        ELSE IF 200 <= code /\ code < 300
        THEN [answered EXCEPT !.state = "returned", !.status = code, !.resp = Some(data)]
        ELSE IF 500 <= code /\ code < 600 /\ r.attempt < 4 THEN continue
        ELSE [answered EXCEPT
                 !.state = "raised", !.status = code,
                 !.error = Some([message |-> "failed", status |-> code, text |-> text])]

\* one iteration of "for attempt in range(5)": the request is sent and answered
\* with status `code`, body `text` (an error) or `data` (a success)
request_iteration(r, code, text, data) ==
    LET answered == [r EXCEPT !.sent = @ + 1]
        slept    == [answered EXCEPT
                        !.sleeps = Append(@, RateLimitSleepMs * (r.attempt + 1)),
                        !.attempt = @ + 1]
        \* the loop ran out: raise RuntimeError("... failed after retries")
        continue == IF slept.attempt < 5 THEN slept
                    ELSE [slept EXCEPT !.state = "raised", !.status = code,
                                       !.error = Some([message |-> "failed after retries"])]
    IN  IF code = 429 THEN continue
        ELSE IF 200 <= code /\ code < 300
        THEN [answered EXCEPT !.state = "returned", !.status = code, !.resp = Some(data)]
        ELSE IF 500 <= code /\ code < 600 /\ r.attempt < 4 THEN continue
        ELSE [answered EXCEPT
                 !.state = "raised", !.status = code,
                 !.error = Some([message |-> "failed", status |-> code, text |-> text])]

\* the statuses the server answers with
OkStatuses == {200}
RateLimitStatuses == {429}
ServerErrorStatuses == {503}
ClientErrorStatuses == {404}

ErrorTexts == {"Not found"}

\* an API method of the client starts its _request; the call is logged with the
\* local path it is made for
Call(method, kind, target, body, src) ==
    /\ net' = NewRequest(method, kind, target, body)
    /\ log' = Append(log, [method |-> method, kind |-> kind, target |-> target,
                           body |-> body, src |-> src])

\* the server answers 2xx: the request takes effect and _request returns
SendOk ==
    /\ net.state = "pending"
    /\ \E code \in OkStatuses :
          LET h == ServerHandle(remote, net)
          IN  /\ net' = request_iteration(net, code, "", h.data)
              /\ remote' = h.remote
    /\ UNCHANGED <<pure_vars, tool, pc, exit_status, disk, log, loc, has_markdown>>

\* the server answers 429
SendRateLimited ==
    /\ net.state = "pending"
    /\ \E code \in RateLimitStatuses, text \in ErrorTexts :
          net' = request_iteration(net, code, text, Nothing)
    /\ UNCHANGED <<pure_vars, tool, pc, exit_status, disk, remote, log, loc, has_markdown>>

\* the server answers 5xx
SendServerError ==
    /\ net.state = "pending"
    /\ \E code \in ServerErrorStatuses, text \in ErrorTexts :
          net' = request_iteration(net, code, text, Nothing)
    /\ UNCHANGED <<pure_vars, tool, pc, exit_status, disk, remote, log, loc, has_markdown>>

\* the server answers 4xx other than 429
SendClientError ==
    /\ net.state = "pending"
    /\ \E code \in ClientErrorStatuses, text \in ErrorTexts :
          net' = request_iteration(net, code, text, Nothing)
    /\ UNCHANGED <<pure_vars, tool, pc, exit_status, disk, remote, log, loc, has_markdown>>

\* the RuntimeError of _request leaves main(): the process ends with status 1
\* (uncaught in the synchronizer, caught by the __main__ handler of the downloader)
Crash ==
    /\ net.state = "raised"
    /\ exit_status = "running"
    /\ exit_status' = "1"
    /\ pc' = "crashed"
    /\ UNCHANGED <<pure_vars, tool, disk, remote, net, log, loc, has_markdown>>

Returned == net.state = "returned"
Response == Get(net.resp)

----------------------------------------------------------------------------
(* Synchronizer: discovery *)

\* a < b for orders, float('inf') (Unordered) above every number
OrderLess(a, b) == a # Unordered /\ (b = Unordered \/ a < b)

\* a variant that compares the titles as they are, without lower()
KeyLess_raw_title(x, y) ==
    \/ OrderLess(x.order, y.order)
    \/ x.order = y.order /\ StrLess(x.title, y.title)

\* the sort key (order, title.lower()) of the source's sorts, compared as tuples
KeyLess(x, y) ==
    \/ OrderLess(x.order, y.order)
    \/ x.order = y.order /\ StrLess(Lower(x.title), Lower(y.title))

RECURSIVE InsertByKey(_, _)
InsertByKey(sorted, x) ==
    IF sorted = <<>> THEN <<x>>
    ELSE IF KeyLess(x, sorted[1]) THEN <<x>> \o sorted
    ELSE <<sorted[1]>> \o InsertByKey(Tail(sorted), x)

\* list.sort(key=...): stable, items with equal keys keep their order
RECURSIVE SortByKey(_)
SortByKey(items) ==
    IF items = <<>> THEN <<>>
    ELSE InsertByKey(SortByKey(SubSeq(items, 1, Len(items) - 1)), items[Len(items)])

\* every order in which a directory listing can return the set S
Perms(S) ==
    {p \in [1..Cardinality(S) -> S] : \A i, j \in 1..Cardinality(S) : p[i] = p[j] => i = j}

DotMd == <<".", "m", "d">>

\* name matches "*.md"
IsMd(name) == Len(name) >= 3 /\ SubSeq(name, Len(name) - 2, Len(name)) = DotMd

\* a variant that matches at any depth below dir, as dir.rglob("*.md") would
GlobMd_recursive(d, dir) ==
    {p \in {f.path : f \in d.files} \cup d.dirs :
        /\ Len(p) >= Len(dir) + 1
        /\ SubSeq(p, 1, Len(dir)) = dir
        /\ IsMd(p[Len(p)])}

\* dir.glob("*.md"): the entries (files and directories) directly inside dir
\* whose name ends in .md
GlobMd(d, dir) ==
    {p \in {f.path : f \in d.files} \cup d.dirs :
        /\ Len(p) = Len(dir) + 1
        /\ SubSeq(p, 1, Len(dir)) = dir
        /\ IsMd(p[Len(p)])}

\* [d for d in content_dir.iterdir() if d.is_dir()]
FirstLevelDirs(d) == {p \in d.dirs : Len(p) = 1}

\* the orders in which glob() and iterdir() may list the tree
Listings(d) ==
    {[root |-> r, dirs |-> ds, files |-> fl] :
        r \in Perms(GlobMd(d, <<>>)),
        ds \in Perms(FirstLevelDirs(d)),
        fl \in {f \in [FirstLevelDirs(d) -> UNION {Perms(GlobMd(d, c)) : c \in FirstLevelDirs(d)}] :
                   \A c \in FirstLevelDirs(d) : f[c] \in Perms(GlobMd(d, c))}}

\* (order, title, path) of a page file
PageItem(path) ==
    LET t == title_from_filename(path[Len(path)])
    IN  [order |-> t.order, title |-> t.title, path |-> path]

\* (ch_order, ch_name, page_items) of a chapter directory
ChapterItem(dirpath, listed) ==
    LET c == strip_two_digit_prefix(dirpath[1])
    IN  [order |-> c.order,
         title |-> IF c.title # <<>> THEN c.title ELSE dirpath[1],
         path |-> dirpath,
         pages |-> SortByKey([i \in 1..Len(listed) |-> PageItem(listed[i])])]

\* collect_content(content_dir) -> (root_pages, chapters), for one listing order
collect_content(listing) ==
    LET dirKeys == [i \in 1..Len(listing.dirs) |->
                       LET c == strip_two_digit_prefix(listing.dirs[i][1])
                       IN  [order |-> c.order, title |-> c.title, path |-> listing.dirs[i]]]
        chapter_dirs == SortByKey(dirKeys)
        all == [i \in 1..Len(chapter_dirs) |->
                   ChapterItem(chapter_dirs[i].path, listing.files[chapter_dirs[i].path])]
        kept == SelectSeq(all, LAMBDA c : c.pages # <<>>)
    IN  [root_pages |-> SortByKey([i \in 1..Len(listing.root) |-> PageItem(listing.root[i])]),
         chapters |-> SortByKey(kept)]

----------------------------------------------------------------------------
(* Synchronizer: client methods *)

\* a variant that matches the name without regard to case
find_book_exact_casefold(data, name) == {b \in data : Lower(b.name) = Lower(name)}

\* find_book_exact: the books of the response with exactly this name
find_book_exact(data, name) == {b \in data : b.name = name}

\* find_chapter: the chapters of the response that match
find_chapter(data, book_id, name) ==
    {c \in data : c.name = name /\ c.book_id = book_id}

\* find_page: the query parameters
find_page_params(book_id, chapter_id, name) ==
    IF chapter_id # NoChapter
    THEN [book_id |-> book_id, name |-> name, chapter_id |-> chapter_id]
    ELSE [book_id |-> book_id, name |-> name]

\* a variant that never finds the page
find_page_miss(data, book_id, chapter_id, name) == {}

\* find_page: the pages of the response that match (the first of them, in the
\* order the server lists them, is returned)
find_page(data, book_id, chapter_id, name) ==
    {p \in data : /\ p.name = name
                  /\ p.book_id = book_id
                  /\ (chapter_id = NoChapter \/ p.chapter_id = chapter_id)}

\* create_page: the JSON body
create_page_body(book_id, chapter_id, name, markdown, priority) ==
    IF chapter_id # NoChapter
    THEN [name |-> name, markdown |-> markdown, chapter_id |-> chapter_id,
          priority |-> priority]
    ELSE [name |-> name, markdown |-> markdown, book_id |-> book_id,
          priority |-> priority]

\* create_chapter: the JSON body (description "" is left out)
create_chapter_body(book_id, name, priority) ==
    [book_id |-> book_id, name |-> name, priority |-> priority]

LocInit ==
    [book_id |-> 0, root_pages |-> <<>>, chapters |-> <<>>, i |-> 0, ci |-> 0,
     priority |-> 0, chapter_order |-> 0, page_order |-> 0,
     chapter |-> Nothing, existing |-> Nothing, transformed_md |-> <<>>,
     items |-> <<>>, page |-> 0, ch_pages |-> <<>>, ch_dir |-> <<>>, writes |-> <<>>,
     run |-> 1]

----------------------------------------------------------------------------
(* Synchronizer: main() *)

\* client.find_book_exact(book_name)
SyncFindBook(book_name) ==
    /\ tool = "sync" /\ pc = "start"
    /\ Call("GET", "books", 0, [name |-> book_name], <<>>)
    /\ pc' = "book"
    /\ UNCHANGED <<pure_vars, env_vars, exit_status, remote, loc>>

\* book not found: exit 3; found: collect_content and enter the root page loop
SyncBookResult(book_name) ==
    /\ tool = "sync" /\ pc = "book" /\ Returned
    /\ net' = Idle
    /\ IF find_book_exact(Response, book_name) = {}
       THEN /\ exit_status' = "3"
            /\ pc' = "exit"
            /\ UNCHANGED loc
       ELSE \E book \in find_book_exact(Response, book_name), l \in Listings(disk) :
               LET c == collect_content(l)
               IN  /\ loc' = [loc EXCEPT !.book_id = book.id,
                                         !.root_pages = c.root_pages,
                                         !.chapters = c.chapters,
                                         !.i = 1, !.priority = 1]
                   /\ pc' = "root_loop"
                   /\ UNCHANGED exit_status
    /\ UNCHANGED <<pure_vars, env_vars, remote, log>>

\* read_markdown(file_path) of a directory: read_text raises IsADirectoryError,
\* nothing catches it and the script ends with a traceback
ReadFails ==
    /\ pc' = "crashed"
    /\ exit_status' = "1"
    /\ UNCHANGED <<net, log, loc>>

\* for _, page_title, file_path in root_pages: read, inline images, find_page;
\* after the last root page, enter the chapter loop
SyncRootPage ==
    /\ tool = "sync" /\ pc = "root_loop"
    /\ IF loc.i > Len(loc.root_pages)
       THEN /\ loc' = [loc EXCEPT !.ci = 1, !.chapter_order = 1]
            /\ pc' = "chapter_loop"
            /\ UNCHANGED <<net, log, exit_status>>
       ELSE LET item == loc.root_pages[loc.i]
                raw_md == ReadText(disk, item.path)
                transformed_md == inline_images(disk, raw_md, <<>>)
            IN  IF ~IsFile(disk, item.path)
                THEN ReadFails
                ELSE /\ loc' = [loc EXCEPT !.transformed_md = transformed_md]
                     /\ Call("GET", "pages", 0,
                             find_page_params(loc.book_id, NoChapter, item.title),
                             item.path)
                     /\ pc' = "root_find"
                     /\ UNCHANGED exit_status
    /\ UNCHANGED <<pure_vars, env_vars, remote>>

\* existing = find_page(...): absent -> create_page, present -> get_page
SyncRootFound ==
    /\ tool = "sync" /\ pc = "root_find" /\ Returned
    /\ LET item == loc.root_pages[loc.i]
           found == find_page(Response, loc.book_id, NoChapter, item.title)
       IN  IF found = {}
           THEN /\ Call("POST", "pages", 0,
                        create_page_body(loc.book_id, NoChapter, item.title,
                                         loc.transformed_md, loc.priority),
                        item.path)
                /\ pc' = "root_write"
                /\ loc' = [loc EXCEPT !.existing = Nothing]
           ELSE \E existing \in found :
                /\ Call("GET", "page", existing.id, [id |-> existing.id], item.path)
                /\ pc' = "root_get"
                /\ loc' = [loc EXCEPT !.existing = Some(existing)]
    /\ UNCHANGED <<pure_vars, env_vars, exit_status, remote>>

\* a variant that sends the markdown with every update, changed or not
page_update_body_resend(same, existing, priority, transformed_md) ==
    IF same /\ existing.priority = priority
    THEN Nothing
    ELSE Some([markdown |-> transformed_md, priority |-> priority])

\* the branch main() takes for a page found remotely: nothing to send (Nothing),
\* update_page(id, priority=...), or update_page(id, markdown=..., priority=...)
page_update_body(same, existing, priority, transformed_md) ==
    IF same
    THEN IF existing.priority # priority
         THEN Some([priority |-> priority])
         ELSE Nothing
    ELSE Some([markdown |-> transformed_md, priority |-> priority])

\* same = contents_equal(transformed_md, full): no-op, priority-only update, or
\* content + priority update
SyncRootCompare ==
    /\ tool = "sync" /\ pc = "root_get" /\ Returned
    /\ LET item == loc.root_pages[loc.i]
           existing == Get(loc.existing)
           same == contents_equal(loc.transformed_md, Response, has_markdown)
           update == page_update_body(same, existing, loc.priority, loc.transformed_md)
       IN  IF IsSome(update)
           THEN /\ Call("PUT", "page", existing.id, Get(update), item.path)
                /\ pc' = "root_write"
                /\ UNCHANGED loc
           ELSE /\ net' = Idle
                /\ loc' = [loc EXCEPT !.priority = @ + 1, !.i = @ + 1]
                /\ pc' = "root_loop"
                /\ UNCHANGED log
    /\ UNCHANGED <<pure_vars, env_vars, exit_status, remote>>

\* create_page / update_page returned: priority += 1, next root page
SyncRootWritten ==
    /\ tool = "sync" /\ pc = "root_write" /\ Returned
    /\ net' = Idle
    /\ loc' = [loc EXCEPT !.priority = @ + 1, !.i = @ + 1]
    /\ pc' = "root_loop"
    /\ UNCHANGED <<pure_vars, env_vars, exit_status, remote, log>>

\* for ch_order, chapter_name, page_items in chapters: find_chapter; after the
\* last chapter the sync is complete
SyncChapter ==
    /\ tool = "sync" /\ pc = "chapter_loop"
    /\ IF loc.ci > Len(loc.chapters)
       THEN /\ pc' = "done"
            /\ exit_status' = "0"
            /\ UNCHANGED <<net, log>>
       ELSE LET ch == loc.chapters[loc.ci]
            IN  /\ Call("GET", "chapters", 0,
                        [book_id |-> loc.book_id, name |-> ch.title], ch.path)
                /\ pc' = "chapter_find"
                /\ UNCHANGED exit_status
    /\ UNCHANGED <<pure_vars, env_vars, remote, loc>>

\* chapter absent -> create_chapter; present with another priority ->
\* update_chapter; present with this priority -> its pages
SyncChapterFound ==
    /\ tool = "sync" /\ pc = "chapter_find" /\ Returned
    /\ LET ch == loc.chapters[loc.ci]
           found == find_chapter(Response, loc.book_id, ch.title)
       IN  IF found = {}
           THEN /\ Call("POST", "chapters", 0,
                        create_chapter_body(loc.book_id, ch.title, loc.chapter_order),
                        ch.path)
                /\ pc' = "chapter_create"
                /\ UNCHANGED loc
           ELSE \E chapter \in found :
                IF chapter.priority # loc.chapter_order
                THEN /\ Call("PUT", "chapter", chapter.id,
                             [priority |-> loc.chapter_order], ch.path)
                     /\ pc' = "chapter_update"
                     /\ loc' = [loc EXCEPT !.chapter = Some(chapter)]
                ELSE /\ net' = Idle
                     /\ loc' = [loc EXCEPT !.chapter = Some(chapter),
                                           !.chapter_order = @ + 1,
                                           !.page_order = 1, !.i = 1]
                     /\ pc' = "page_loop"
                     /\ UNCHANGED log
    /\ UNCHANGED <<pure_vars, env_vars, exit_status, remote>>

\* chapter = client.create_chapter(...) returned
SyncChapterCreated ==
    /\ tool = "sync" /\ pc = "chapter_create" /\ Returned
    /\ net' = Idle
    /\ loc' = [loc EXCEPT !.chapter = Some(Response), !.chapter_order = @ + 1,
                          !.page_order = 1, !.i = 1]
    /\ pc' = "page_loop"
    /\ UNCHANGED <<pure_vars, env_vars, exit_status, remote, log>>

\* client.update_chapter(...) returned; chapter stays the one found
SyncChapterUpdated ==
    /\ tool = "sync" /\ pc = "chapter_update" /\ Returned
    /\ net' = Idle
    /\ loc' = [loc EXCEPT !.chapter_order = @ + 1, !.page_order = 1, !.i = 1]
    /\ pc' = "page_loop"
    /\ UNCHANGED <<pure_vars, env_vars, exit_status, remote, log>>

\* for _, page_title, file_path in page_items: read, inline images, find_page in
\* the chapter; after the last page, the next chapter
SyncChapterPage ==
    /\ tool = "sync" /\ pc = "page_loop"
    /\ LET ch == loc.chapters[loc.ci]
       IN  IF loc.i > Len(ch.pages)
           THEN /\ loc' = [loc EXCEPT !.ci = @ + 1]
                /\ pc' = "chapter_loop"
                /\ UNCHANGED <<net, log, exit_status>>
           ELSE LET item == ch.pages[loc.i]
                    raw_md == ReadText(disk, item.path)
                    transformed_md == inline_images(disk, raw_md, ch.path)
                IN  IF ~IsFile(disk, item.path)
                    THEN ReadFails
                    ELSE /\ loc' = [loc EXCEPT !.transformed_md = transformed_md]
                         /\ Call("GET", "pages", 0,
                                 find_page_params(loc.book_id, Get(loc.chapter).id,
                                                  item.title),
                                 item.path)
                         /\ pc' = "page_find"
                         /\ UNCHANGED exit_status
    /\ UNCHANGED <<pure_vars, env_vars, remote>>

\* existing = find_page(... chapter_id=chapter["id"] ...)
SyncChapterPageFound ==
    /\ tool = "sync" /\ pc = "page_find" /\ Returned
    /\ LET item == loc.chapters[loc.ci].pages[loc.i]
           chapter_id == Get(loc.chapter).id
           found == find_page(Response, loc.book_id, chapter_id, item.title)
       IN  IF found = {}
           THEN /\ Call("POST", "pages", 0,
                        create_page_body(loc.book_id, chapter_id, item.title,
                                         loc.transformed_md, loc.page_order),
                        item.path)
                /\ pc' = "page_write"
                /\ loc' = [loc EXCEPT !.existing = Nothing]
           ELSE \E existing \in found :
                /\ Call("GET", "page", existing.id, [id |-> existing.id], item.path)
                /\ pc' = "page_get"
                /\ loc' = [loc EXCEPT !.existing = Some(existing)]
    /\ UNCHANGED <<pure_vars, env_vars, exit_status, remote>>

\* same = contents_equal(transformed_md, full) for a chapter page
SyncChapterPageCompare ==
    /\ tool = "sync" /\ pc = "page_get" /\ Returned
    /\ LET item == loc.chapters[loc.ci].pages[loc.i]
           existing == Get(loc.existing)
           same == contents_equal(loc.transformed_md, Response, has_markdown)
           update == page_update_body(same, existing, loc.page_order, loc.transformed_md)
       IN  IF IsSome(update)
           THEN /\ Call("PUT", "page", existing.id, Get(update), item.path)
                /\ pc' = "page_write"
                /\ UNCHANGED loc
           ELSE /\ net' = Idle
                /\ loc' = [loc EXCEPT !.page_order = @ + 1, !.i = @ + 1]
                /\ pc' = "page_loop"
                /\ UNCHANGED log
    /\ UNCHANGED <<pure_vars, env_vars, exit_status, remote>>

\* create_page / update_page returned: page_order += 1, next page of the chapter
SyncChapterPageWritten ==
    /\ tool = "sync" /\ pc = "page_write" /\ Returned
    /\ net' = Idle
    /\ loc' = [loc EXCEPT !.page_order = @ + 1, !.i = @ + 1]
    /\ pc' = "page_loop"
    /\ UNCHANGED <<pure_vars, env_vars, exit_status, remote, log>>

----------------------------------------------------------------------------
(* Downloader: helpers *)

\* (?i)<\s*br\s*/?\s*>
MatchBr(s) ==
    IF s = <<>> \/ s[1] # "<" THEN 0
    ELSE LET a == 1 + LeadingRun(Drop(s, 1), Whitespace)
         IN  IF ~(Len(s) >= a + 2 /\ LowerChar(s[a + 1]) = "b" /\ LowerChar(s[a + 2]) = "r")
             THEN 0
             ELSE LET b == a + 2 + LeadingRun(Drop(s, a + 2), Whitespace)
                      c == IF Len(s) > b /\ s[b + 1] = "/" THEN b + 1 ELSE b
                      d == c + LeadingRun(Drop(s, c), Whitespace)
                      \* without the optional "/" (when it is followed by no ">")
                      e == b
                  IN  IF Len(s) > d /\ s[d + 1] = ">" THEN d + 1
                      ELSE IF Len(s) > e /\ s[e + 1] = ">" THEN e + 1
                      ELSE 0

\* (?i)</\s*p\s*>
MatchCloseP(s) ==
    IF ~(Len(s) >= 2 /\ s[1] = "<" /\ s[2] = "/") THEN 0
    ELSE LET a == 2 + LeadingRun(Drop(s, 2), Whitespace)
         IN  IF ~(Len(s) > a /\ LowerChar(s[a + 1]) = "p") THEN 0
             ELSE LET b == a + 1 + LeadingRun(Drop(s, a + 1), Whitespace)
                  IN  IF Len(s) > b /\ s[b + 1] = ">" THEN b + 1 ELSE 0

\* (?i)<\s*p[^>]*>
MatchOpenP(s) ==
    IF s = <<>> \/ s[1] # "<" THEN 0
    ELSE LET a == 1 + LeadingRun(Drop(s, 1), Whitespace)
         IN  IF ~(Len(s) > a /\ LowerChar(s[a + 1]) = "p") THEN 0
             ELSE LET b == a + 1 + LeadingRunNot(Drop(s, a + 1), {">"})
                  IN  IF Len(s) > b THEN b + 1 ELSE 0

\* _HTML_TAG_RE: <[^>]+>
MatchTag(s) ==
    IF s = <<>> \/ s[1] # "<" THEN 0
    ELSE LET a == LeadingRunNot(Drop(s, 1), {">"})
         IN  IF a >= 1 /\ Len(s) > 1 + a THEN a + 2 ELSE 0

\* \n\n\n+
MatchBlankLines(s) ==
    LET n == LeadingRun(s, {"\n"}) IN IF n >= 3 THEN n ELSE 0

\* re.sub(r"(?i)<\s*br\s*/?\s*>", "\n", s)
RECURSIVE SubBr(_)
SubBr(s) ==
    IF s = <<>> THEN <<>>
    ELSE IF MatchBr(s) > 0 THEN <<"\n">> \o SubBr(Drop(s, MatchBr(s)))
    ELSE <<s[1]>> \o SubBr(Tail(s))

\* re.sub(r"(?i)</\s*p\s*>", "\n\n", s)
RECURSIVE SubCloseP(_)
SubCloseP(s) ==
    IF s = <<>> THEN <<>>
    ELSE IF MatchCloseP(s) > 0 THEN <<"\n", "\n">> \o SubCloseP(Drop(s, MatchCloseP(s)))
    ELSE <<s[1]>> \o SubCloseP(Tail(s))

\* re.sub(r"(?i)<\s*p[^>]*>", "", s)
RECURSIVE SubOpenP(_)
SubOpenP(s) ==
    IF s = <<>> THEN <<>>
    ELSE IF MatchOpenP(s) > 0 THEN SubOpenP(Drop(s, MatchOpenP(s)))
    ELSE <<s[1]>> \o SubOpenP(Tail(s))

\* _HTML_TAG_RE.sub("", s)
RECURSIVE SubTag(_)
SubTag(s) ==
    IF s = <<>> THEN <<>>
    ELSE IF MatchTag(s) > 0 THEN SubTag(Drop(s, MatchTag(s)))
    ELSE <<s[1]>> \o SubTag(Tail(s))

\* re.sub(r"\n\n\n+", "\n\n", s)
RECURSIVE SubBlankLines(_)
SubBlankLines(s) ==
    IF s = <<>> THEN <<>>
    ELSE IF MatchBlankLines(s) > 0
    THEN <<"\n", "\n">> \o SubBlankLines(Drop(s, MatchBlankLines(s)))
    ELSE <<s[1]>> \o SubBlankLines(Tail(s))

\* _basic_strip_html(html); the contents of the model hold no character
\* entities, so html.unescape changes nothing
basic_strip_html(html) ==
    LET a == SubBr(html)
        b == SubCloseP(a)
        c == SubOpenP(b)
        d == SubTag(c)
        n == UniversalNewlines(d)
        e == SubBlankLines(n)
    IN  Strip(e) \o <<"\n">>

\* the libraries the downloader imports on demand; each field is what the
\* call returns for the html at hand, Nothing when the library cannot be
\* imported or raises
\*   markdownify: _try_markdownify(html)     html2text: _try_html2text(html)
\*   soup: str(BeautifulSoup(html)) after the callout rewrite
NoConverters == [markdownify |-> Nothing, html2text |-> Nothing, soup |-> Nothing]

\* _preprocess_callouts(html)
preprocess_callouts(html, lib) == IF IsSome(lib.soup) THEN Get(lib.soup) ELSE html

\* \s+$ with re.MULTILINE at the head of s: the longest run of whitespace
\* that ends at the end of the text or just before a "\n"
MatchTrailingWs(s) ==
    LET n == LeadingRun(s, Whitespace)
        K == {k \in 1..(n - 1) : s[k + 1] = "\n"}
    IN  IF n = 0 THEN 0
        ELSE IF n = Len(s) THEN n
        ELSE IF K = {} THEN 0
        ELSE CHOOSE k \in K : \A j \in K : j <= k

\* re.sub(r"\s+$", "", md, flags=re.MULTILINE)
RECURSIVE SubTrailingWs(_)
SubTrailingWs(s) ==
    IF s = <<>> THEN <<>>
    ELSE IF MatchTrailingWs(s) > 0 THEN SubTrailingWs(Drop(s, MatchTrailingWs(s)))
    ELSE <<s[1]>> \o SubTrailingWs(Tail(s))

\* text.split("\n")
RECURSIVE SplitNewline(_)
SplitNewline(s) ==
    LET n == LeadingRunNot(s, {"\n"})
    IN  IF n = Len(s) THEN <<s>>
        ELSE <<SubSeq(s, 1, n)>> \o SplitNewline(Drop(s, n + 1))

\* md_text.splitlines(): lines end at "\n", "\r" or "\r\n", and a line end
\* at the end of the text opens no further line
SplitLines(s) ==
    LET parts == SplitNewline(UniversalNewlines(s))
    IN  IF parts[Len(parts)] = <<>> THEN SubSeq(parts, 1, Len(parts) - 1) ELSE parts

\* "\n".join(lines)
RECURSIVE JoinNewline(_)
JoinNewline(lines) ==
    IF lines = <<>> THEN <<>>
    ELSE IF Len(lines) = 1 THEN lines[1]
    ELSE lines[1] \o <<"\n">> \o JoinNewline(Tail(lines))

\* [A-Za-z]
Letters == {CharOrder[i] : i \in UpperFirst..(UpperFirst + 25)}
               \cup {CharOrder[i] : i \in LowerFirst..(LowerFirst + 25)}

\* callout_re.match(line): ^\s*>\s*\[![A-Za-z]+\]
IsCalloutLine(line) ==
    LET a == LStrip(line, Whitespace)
        b == IF a # <<>> /\ a[1] = ">" THEN LStrip(Tail(a), Whitespace) ELSE <<>>
        n == IF Len(b) >= 2 /\ b[1] = "[" /\ b[2] = "!"
             THEN LeadingRun(Drop(b, 2), Letters) ELSE 0
    IN  n >= 1 /\ Len(b) >= n + 3 /\ b[n + 3] = "]"

\* the loop of _ensure_blankline_before_callouts over lines, out so far
RECURSIVE BlanklineBeforeCallouts(_, _)
BlanklineBeforeCallouts(lines, out) ==
    IF lines = <<>> THEN out
    ELSE LET line == lines[1]
             gap == IsCalloutLine(line) /\ out # <<>> /\ Strip(out[Len(out)]) # <<>>
         IN  BlanklineBeforeCallouts(Tail(lines),
                 (IF gap THEN Append(out, <<>>) ELSE out) \o <<line>>)

\* _ensure_blankline_before_callouts(md_text)
ensure_blankline_before_callouts(md_text) ==
    RStrip(JoinNewline(BlanklineBeforeCallouts(SplitLines(md_text), <<>>)), Whitespace)
        \o <<"\n">>

\* the light normalization of a converter's output in html_to_markdown
normalize_converted(md) ==
    LET a == SubTrailingWs(md)
        b == SubBlankLines(a)
        c == Strip(b) \o <<"\n">>
    IN  ensure_blankline_before_callouts(c)

\* isinstance(md, str) and md.strip()
Usable(md) == IsSome(md) /\ Strip(Get(md)) # <<>>

\* html_to_markdown with html2text tried before markdownify
html_to_markdown_secondary_first(html, lib) ==
    IF Usable(lib.html2text) THEN normalize_converted(Get(lib.html2text))
    ELSE IF Usable(lib.markdownify) THEN normalize_converted(Get(lib.markdownify))
    ELSE basic_strip_html(preprocess_callouts(html, lib))

\* html_to_markdown(html)
html_to_markdown(html, lib) ==
    IF Usable(lib.markdownify) THEN normalize_converted(Get(lib.markdownify))
    ELSE IF Usable(lib.html2text) THEN normalize_converted(Get(lib.html2text))
    ELSE basic_strip_html(preprocess_callouts(html, lib))

\* the content main() writes for the page `full` returned by get_page
page_content(full, lib) ==
    IF IsSome(full.markdown) /\ Strip(Get(full.markdown)) # <<>>
    THEN Get(full.markdown)
    ELSE LET html == IF IsSome(full.html) THEN Strip(Get(full.html)) ELSE <<>>
         IN  IF html # <<>> THEN html_to_markdown(html, lib) ELSE <<>>

\* all proper prefixes of a path, the root included: its parent directories
Parents(path) == {SubSeq(path, 1, n) : n \in 0..(Len(path) - 1)}

\* path.mkdir(parents=True, exist_ok=True)
Mkdir(fs, path) == [fs EXCEPT !.dirs = @ \cup Parents(path) \cup {path}]

\* write_text_if_changed(path, content) -> [status, fs]
write_text_if_changed(fs, path, content) ==
    LET made == [fs EXCEPT !.dirs = @ \cup Parents(path)]
    IN  IF IsFile(made, path) /\ ReadText(made, path) = content
        THEN [status |-> "no-change", fs |-> made]
        ELSE [status |-> "written",
              fs |-> [made EXCEPT !.files =
                         {f \in @ : f.path # path} \cup {[path |-> path, content |-> content]}]]

\* p.get("priority") or 0
PriorityOrZero(p) == IF p.priority = NoPriority THEN 0 ELSE p.priority

\* the key (priority or 0, name.lower()) of the downloader's sorts
PriorityKeyLess(x, y) ==
    \/ PriorityOrZero(x) < PriorityOrZero(y)
    \/ PriorityOrZero(x) = PriorityOrZero(y) /\ StrLess(Lower(x.name), Lower(y.name))

RECURSIVE InsertByPriority(_, _)
InsertByPriority(sorted, x) ==
    IF sorted = <<>> THEN <<x>>
    ELSE IF PriorityKeyLess(x, sorted[1]) THEN <<x>> \o sorted
    ELSE <<sorted[1]>> \o InsertByPriority(Tail(sorted), x)

\* items.sort(key=lambda p: (p.get("priority") or 0, (p.get("name") or "").lower()))
RECURSIVE SortByPriority(_)
SortByPriority(items) ==
    IF items = <<>> THEN <<>>
    ELSE InsertByPriority(SortByPriority(SubSeq(items, 1, Len(items) - 1)),
                          items[Len(items)])

\* _list_all(path, params, count=100): items per request
ListCount == 100

\* _list_all: `if len(data) < count or not j.get("next"): break`
list_all_done(j, count) == Len(j.data) < count \/ ~j.next

\* title = p.get("name") or f"Page-{id}" / f"Chapter-{id}"
TitleOr(item, fallback) ==
    IF item.name # <<>> THEN item.name ELSE fallback \o <<"-">> \o IntToStr(item.id)

PagePrefix == <<"P", "a", "g", "e">>
ChapterPrefix == <<"C", "h", "a", "p", "t", "e", "r">>

----------------------------------------------------------------------------
(* Downloader: main() *)

\* client.find_book_exact(book_name)
DlFindBook(book_name) ==
    /\ tool = "download" /\ pc = "start"
    /\ Call("GET", "books", 0, [name |-> book_name], <<>>)
    /\ pc' = "book"
    /\ UNCHANGED <<pure_vars, env_vars, exit_status, remote, loc>>

\* book not found: exit 3; found: list_pages_root starts _list_all
DlBookResult(book_name) ==
    /\ tool = "download" /\ pc = "book" /\ Returned
    /\ IF find_book_exact(Response, book_name) = {}
       THEN /\ exit_status' = "3"
            /\ pc' = "exit"
            /\ net' = Idle
            /\ UNCHANGED <<loc, log>>
       ELSE \E book \in find_book_exact(Response, book_name) :
            /\ loc' = [loc EXCEPT !.book_id = book.id, !.items = <<>>, !.page = 1]
            /\ Call("GET", "list_pages", 0,
                    [book_id |-> book.id, count |-> ListCount, page |-> 1], <<>>)
            /\ pc' = "list_root"
            /\ UNCHANGED exit_status
    /\ UNCHANGED <<pure_vars, env_vars, remote>>

\* _list_all for list_pages_root: one response; the last one ends the loop,
\* the root pages are kept and sorted
DlRootListed ==
    /\ tool = "download" /\ pc = "list_root" /\ Returned
    /\ LET j == Response
           items == loc.items \o j.data
       IN  IF list_all_done(j, ListCount)
           THEN /\ loc' = [loc EXCEPT
                             !.items = <<>>,
                             !.root_pages = SortByPriority(
                                 SelectSeq(items, LAMBDA p : p.chapter_id = NoChapter)),
                             !.i = 1]
                /\ net' = Idle
                /\ pc' = "root_loop"
                /\ UNCHANGED log
           ELSE /\ loc' = [loc EXCEPT !.items = items, !.page = @ + 1]
                /\ Call("GET", "list_pages", 0,
                        [book_id |-> loc.book_id, count |-> ListCount,
                         page |-> loc.page + 1], <<>>)
                /\ UNCHANGED pc
    /\ UNCHANGED <<pure_vars, env_vars, exit_status, remote>>

\* for p in root_pages: get_page; after the last one list_chapters starts _list_all
DlRootPage ==
    /\ tool = "download" /\ pc = "root_loop"
    /\ IF loc.i > Len(loc.root_pages)
       THEN /\ loc' = [loc EXCEPT !.items = <<>>, !.page = 1]
            /\ Call("GET", "list_chapters", 0,
                    [book_id |-> loc.book_id, count |-> ListCount, page |-> 1], <<>>)
            /\ pc' = "list_chapters"
       ELSE LET p == loc.root_pages[loc.i]
            IN  /\ Call("GET", "page", p.id, [id |-> p.id], <<>>)
                /\ pc' = "root_get"
                /\ UNCHANGED loc
    /\ UNCHANGED <<pure_vars, env_vars, exit_status, remote>>

\* the page's content is written to out_root / (prefixed_name + ".md")
DlRootWrite ==
    /\ tool = "download" /\ pc = "root_get" /\ Returned
    /\ LET p == loc.root_pages[loc.i]
           filename == prefixed_name(p.priority, TitleOr(p, PagePrefix)) \o DotMd
           w == write_text_if_changed(disk, <<filename>>, page_content(Response, NoConverters))
       IN  /\ disk' = w.fs
           /\ loc' = [loc EXCEPT !.i = @ + 1,
                                 !.writes = Append(@, [path |-> <<filename>>,
                                                       status |-> w.status])]
    /\ net' = Idle
    /\ pc' = "root_loop"
    /\ UNCHANGED <<pure_vars, tool, has_markdown, exit_status, remote, log>>

\* _list_all for list_chapters
DlChaptersListed ==
    /\ tool = "download" /\ pc = "list_chapters" /\ Returned
    /\ LET j == Response
           items == loc.items \o j.data
       IN  IF list_all_done(j, ListCount)
           THEN /\ loc' = [loc EXCEPT !.items = <<>>,
                                      !.chapters = SortByPriority(items), !.ci = 1]
                /\ net' = Idle
                /\ pc' = "chapter_loop"
                /\ UNCHANGED log
           ELSE /\ loc' = [loc EXCEPT !.items = items, !.page = @ + 1]
                /\ Call("GET", "list_chapters", 0,
                        [book_id |-> loc.book_id, count |-> ListCount,
                         page |-> loc.page + 1], <<>>)
                /\ UNCHANGED pc
    /\ UNCHANGED <<pure_vars, env_vars, exit_status, remote>>

\* for ch in chapters: make its directory and list its pages; after the last
\* chapter the download is complete
DlChapter ==
    /\ tool = "download" /\ pc = "chapter_loop"
    /\ IF loc.ci > Len(loc.chapters)
       THEN /\ pc' = "done"
            /\ exit_status' = "0"
            /\ UNCHANGED <<disk, net, log, loc>>
       ELSE LET ch == loc.chapters[loc.ci]
                ch_dir == <<prefixed_name(ch.priority, TitleOr(ch, ChapterPrefix))>>
            IN  /\ disk' = Mkdir(disk, ch_dir)
                /\ loc' = [loc EXCEPT !.ch_dir = ch_dir, !.items = <<>>, !.page = 1,
                                      !.writes = Append(@, [path |-> ch_dir,
                                                            status |-> "mkdir"])]
                /\ Call("GET", "list_pages", 0,
                        [chapter_id |-> ch.id, count |-> ListCount, page |-> 1], <<>>)
                /\ pc' = "list_pages"
                /\ UNCHANGED exit_status
    /\ UNCHANGED <<pure_vars, tool, has_markdown, remote>>

\* _list_all for list_pages_in_chapter
DlChapterPagesListed ==
    /\ tool = "download" /\ pc = "list_pages" /\ Returned
    /\ LET j == Response
           items == loc.items \o j.data
       IN  IF list_all_done(j, ListCount)
           THEN /\ loc' = [loc EXCEPT !.items = <<>>,
                                      !.ch_pages = SortByPriority(items), !.i = 1]
                /\ net' = Idle
                /\ pc' = "page_loop"
                /\ UNCHANGED log
           ELSE /\ loc' = [loc EXCEPT !.items = items, !.page = @ + 1]
                /\ Call("GET", "list_pages", 0,
                        [chapter_id |-> loc.chapters[loc.ci].id, count |-> ListCount,
                         page |-> loc.page + 1], <<>>)
                /\ UNCHANGED pc
    /\ UNCHANGED <<pure_vars, env_vars, exit_status, remote>>

\* for p in ch_pages: get_page; after the last one the next chapter
DlChapterPage ==
    /\ tool = "download" /\ pc = "page_loop"
    /\ IF loc.i > Len(loc.ch_pages)
       THEN /\ loc' = [loc EXCEPT !.ci = @ + 1]
            /\ pc' = "chapter_loop"
            /\ UNCHANGED <<net, log>>
       ELSE LET p == loc.ch_pages[loc.i]
            IN  /\ Call("GET", "page", p.id, [id |-> p.id], <<>>)
                /\ pc' = "page_get"
                /\ UNCHANGED loc
    /\ UNCHANGED <<pure_vars, env_vars, exit_status, remote>>

\* the page's content is written to ch_dir / (prefixed_name + ".md")
DlChapterPageWrite ==
    /\ tool = "download" /\ pc = "page_get" /\ Returned
    /\ LET p == loc.ch_pages[loc.i]
           filename == prefixed_name(p.priority, TitleOr(p, PagePrefix)) \o DotMd
           w == write_text_if_changed(disk, loc.ch_dir \o <<filename>>,
                                      page_content(Response, NoConverters))
       IN  /\ disk' = w.fs
           /\ loc' = [loc EXCEPT !.i = @ + 1,
                                 !.writes = Append(@, [path |-> loc.ch_dir \o <<filename>>,
                                                       status |-> w.status])]
    /\ net' = Idle
    /\ pc' = "page_loop"
    /\ UNCHANGED <<pure_vars, tool, has_markdown, exit_status, remote, log>>

----------------------------------------------------------------------------
(* Bounded inputs *)

\* longest generated input string
MaxLen == 3

\* all strings over alphabet cs of length at most n
StringsUpTo(cs, n) == UNION {[1..k -> cs] : k \in 0..n}

CodecAlphabet == {"a", "B", "1", " ", "\t", "_", "-", ".", "/"}

Name_010_Title == <<"0", "1", "0", " ", "T", "i", "t", "l", "e">>
Name_Title == <<"T", "i", "t", "l", "e">>
Name_Getting_Started ==
    <<"G", "e", "t", "t", "i", "n", "g", "_", "S", "t", "a", "r", "t", "e", "d">>
Name_02_Getting_Started == <<"0", "2", " ">> \o Name_Getting_Started

CodecStrings ==
    StringsUpTo(CodecAlphabet, MaxLen)
        \cup {Name_010_Title, Name_Title, Name_Getting_Started,
              Name_02_Getting_Started, Untitled}

\* orders handed to prefixed_name: none, one digit, two digits, wider
CodecOrders == {NoPriority, 0, 3, 10, 99, 100, 9999}

----------------------------------------------------------------------------
(* SpecCodec: the codec functions applied to bounded inputs *)

NoCodec == [op |-> "off"]
NoEq == [op |-> "off"]
NoConv == [op |-> "off"]
NoImg == [op |-> "off"]
NoLst == [op |-> "off"]

\* an empty folder
EmptyDisk == [dirs |-> {}, files |-> {}]

\* no script runs (the specifications of the pure functions)
RunOff ==
    /\ tool = "off" /\ pc = "off" /\ exit_status = "off"
    /\ disk = [dirs |-> {}, files |-> {}]
    /\ remote = [books |-> {}, chapters |-> {}, pages |-> {}, next_id |-> 1]
    /\ net = Idle /\ log = <<>> /\ loc = LocInit /\ has_markdown = FALSE

InitCodec ==
    /\ \E x \in CodecStrings, o \in CodecOrders :
          codec = [op |-> "input", x |-> x, order |-> o]
    /\ eq = NoEq /\ conv = NoConv /\ img = NoImg /\ lst = NoLst
    /\ RunOff

\* sanitize_name(x)
CodecSanitize ==
    /\ codec.op = "input"
    /\ codec' = [op |-> "sanitized", x |-> codec.x, order |-> codec.order,
                 out |-> sanitize_name(codec.x)]
    /\ UNCHANGED <<eq, conv, img, lst, run_vars>>

\* sanitize_name applied to its own result
CodecSanitizeAgain ==
    /\ codec.op = "sanitized"
    /\ codec' = [op |-> "resanitized", x |-> codec.x, order |-> codec.order,
                 out |-> codec.out, out2 |-> sanitize_name(codec.out)]
    /\ UNCHANGED <<eq, conv, img, lst, run_vars>>

\* prefixed_name(order, x)
CodecEncode ==
    /\ codec.op = "input"
    /\ codec' = [op |-> "encoded", x |-> codec.x, order |-> codec.order,
                 out |-> prefixed_name(codec.order, codec.x)]
    /\ UNCHANGED <<eq, conv, img, lst, run_vars>>

\* the encoded name read back as a chapter directory name
CodecDecodeDir ==
    /\ codec.op = "encoded"
    /\ codec' = [op |-> "decoded_dir", x |-> codec.x, order |-> codec.order,
                 out |-> codec.out, out2 |-> strip_two_digit_prefix(codec.out)]
    /\ UNCHANGED <<eq, conv, img, lst, run_vars>>

\* the encoded name + ".md" read back as a page file name
CodecDecodeFile ==
    /\ codec.op = "encoded"
    /\ codec' = [op |-> "decoded_file", x |-> codec.x, order |-> codec.order,
                 out |-> codec.out,
                 out2 |-> title_from_filename(codec.out \o DotMd)]
    /\ UNCHANGED <<eq, conv, img, lst, run_vars>>

\* strip_two_digit_prefix(x) on an arbitrary name
CodecDecodeName ==
    /\ codec.op = "input"
    /\ codec' = [op |-> "decoded_name", x |-> codec.x, order |-> codec.order,
                 out |-> codec.x, out2 |-> strip_two_digit_prefix(codec.x)]
    /\ UNCHANGED <<eq, conv, img, lst, run_vars>>

\* title_from_filename(x + ".md") on an arbitrary stem
CodecTitleOfFile ==
    /\ codec.op = "input"
    /\ codec' = [op |-> "titled_file", x |-> codec.x, order |-> codec.order,
                 out |-> codec.x \o DotMd,
                 out2 |-> title_from_filename(codec.x \o DotMd)]
    /\ UNCHANGED <<eq, conv, img, lst, run_vars>>

NextCodec ==
    \/ CodecSanitize
    \/ CodecSanitizeAgain
    \/ CodecEncode
    \/ CodecDecodeDir
    \/ CodecDecodeFile
    \/ CodecDecodeName
    \/ CodecTitleOfFile

SpecCodec == InitCodec /\ [][NextCodec]_vars

----------------------------------------------------------------------------
(* SpecEq: contents_equal applied to bounded inputs *)

ContentAlphabet == {"a", "b", " ", "\n"}

\* longest generated page content
MaxContentLen == 2

ContentStrings == StringsUpTo(ContentAlphabet, MaxContentLen)

Html_a == <<"<", "p", ">", "a", "<", "/", "p", ">">>

Html_b == <<"<", "p", ">", "b", "<", "/", "p", ">">>

HtmlStrings == {Html_a, Html_a \o <<"\n">>, Html_b}

InitEq ==
    /\ \E c \in ContentStrings,
          m \in {Nothing} \cup {Some(s) : s \in ContentStrings},
          h \in {Nothing} \cup {Some(s) : s \in HtmlStrings},
          lib \in BOOLEAN :
          eq = [op |-> "input", new_markdown |-> c,
                page |-> [markdown |-> m, html |-> h], markdown_lib |-> lib]
    /\ codec = NoCodec /\ conv = NoConv /\ img = NoImg /\ lst = NoLst
    /\ RunOff

\* contents_equal(new_markdown, page)
EqCompare ==
    /\ eq.op = "input"
    /\ eq' = [op |-> "compared", new_markdown |-> eq.new_markdown, page |-> eq.page,
              markdown_lib |-> eq.markdown_lib,
              same |-> contents_equal(eq.new_markdown, eq.page, eq.markdown_lib)]
    /\ UNCHANGED <<codec, conv, img, lst, run_vars>>

NextEq == EqCompare

SpecEq == InitEq /\ [][NextEq]_vars

----------------------------------------------------------------------------
(* SpecConv: the downloader's HTML -> Markdown conversion on bounded inputs *)

Html_Hi == <<"<", "p", ">", "H", "i", "<", "/", "p", ">">>
Markdown_Hi == <<"H", "i">>
File_Hi == <<"0", "1", " ", "H", "i", ".", "m", "d">>

\* the html field of the page: absent, blank, one or two paragraphs, a break
ConvHtmls ==
    {Nothing, Some(<<" ">>), Some(Html_Hi), Some(Html_a \o <<"\n">>),
     Some(Html_a \o Html_b), Some(<<"a", "<", "b", "r", ">", "\r", "\n", "b">>)}

\* the markdown field of the page: absent, blank, text
ConvMarkdowns == {Nothing, Some(<<" ">>), Some(<<"a">>)}

\* what a converter returns: nothing, blank text, text, text with trailing
\* blanks and blank lines, text with a callout line
ConvOutputs ==
    {Nothing, Some(<<>>), Some(<<" ", "\n">>), Some(Markdown_Hi),
     Some(<<"a", " ", "\n", "\n", "\n", "b", "\n", "\n">>),
     Some(<<"a", "\n", ">", " ", "[", "!", "T", "I", "P", "]", "\n", ">", " ", "b">>)}

InitConv ==
    /\ \E m \in ConvMarkdowns, h \in ConvHtmls, first \in ConvOutputs,
          second \in ConvOutputs, bs4 \in BOOLEAN :
          conv = [op |-> "input",
                  page |-> [markdown |-> m, html |-> h],
                  lib |-> [markdownify |-> first, html2text |-> second,
                           soup |-> IF bs4 /\ IsSome(h) THEN Some(Strip(Get(h)))
                                    ELSE Nothing]]
    /\ codec = NoCodec /\ eq = NoEq /\ img = NoImg /\ lst = NoLst
    /\ RunOff

\* html_to_markdown(html) on the stripped html field, as main() calls it
ConvConvert ==
    /\ conv.op = "input"
    /\ IsSome(conv.page.html) /\ Strip(Get(conv.page.html)) # <<>>
    /\ conv' = [op |-> "converted", page |-> conv.page, lib |-> conv.lib,
                out |-> html_to_markdown(Strip(Get(conv.page.html)), conv.lib)]
    /\ UNCHANGED <<codec, eq, img, lst, run_vars>>

\* the page written by main() into an empty folder
ConvMaterialize ==
    /\ conv.op = "input"
    /\ conv' = [op |-> "written", page |-> conv.page, lib |-> conv.lib,
                out |-> write_text_if_changed(EmptyDisk, <<File_Hi>>,
                                              page_content(conv.page, conv.lib))]
    /\ UNCHANGED <<codec, eq, img, lst, run_vars>>

NextConv == ConvConvert \/ ConvMaterialize

SpecConv == InitConv /\ [][NextConv]_vars

----------------------------------------------------------------------------
(* Spec: one run of the synchronizer or of the downloader *)

File_03_Getting_Started ==
    <<"0", "3", " ", "G", "e", "t", "t", "i", "n", "g", " ", "S", "t", "a", "r", "t",
      "e", "d", ".", "m", "d">>
File_01_Intro == <<"0", "1", " ", "I", "n", "t", "r", "o", ".", "m", "d">>
File_02_Intro == <<"0", "2", "_", "I", "n", "t", "r", "o", ".", "m", "d">>
File_Notes == <<"N", "o", "t", "e", "s", ".", "m", "d">>
File_01_a == <<"0", "1", " ", "a", ".", "m", "d">>
File_01_B == <<"0", "1", " ", "B", ".", "m", "d">>
Dir_01_Ch == <<"0", "1", " ", "C", "h">>
Dir_02_Getting_Started == <<"0", "2", " ">> \o Name_Getting_Started
Title_Intro == <<"I", "n", "t", "r", "o">>
Title_Getting_Started ==
    <<"G", "e", "t", "t", "i", "n", "g", " ", "S", "t", "a", "r", "t", "e", "d">>
Title_Ch == <<"C", "h">>
BookName == <<"D", "o", "c", "s">>
OtherBookName == <<"d", "o", "c", "s">>
Image_a_png == <<"a", ".", "p", "n", "g">>

\* the text of each local page file, by its name
FileText(name) ==
    CASE name = File_01_Intro -> <<"a">>
      [] name = File_03_Getting_Started ->
            <<"!", "[", "x", "]", "(", "a", ".", "p", "n", "g", ")">>
      [] name = File_Notes -> <<"a", "\n">>
      [] OTHER -> <<"b">>

\* a content root with these root files and chapter directories (a function
\* from directory name to the set of its file names), and one image
LocalTree(rootFiles, chapterFiles) ==
    [dirs |-> {<<>>} \cup {<<d>> : d \in DOMAIN chapterFiles},
     files |-> {[path |-> <<f>>, content |-> FileText(f)] : f \in rootFiles}
               \cup UNION {{[path |-> <<d, f>>, content |-> FileText(f)] :
                              f \in chapterFiles[d]} : d \in DOMAIN chapterFiles}
               \cup {[path |-> <<Image_a_png>>, content |-> <<0, 255, 16>>]}]

\* most root files, chapter directories, files of a chapter, remote pages
MaxRootFiles == 2
MaxChapters == 2
MaxChapterFiles == 2
MaxRemotePages == 1

SubsetsUpTo(S, n) == {T \in SUBSET S : Cardinality(T) <= n}

RootFileCandidates == {File_03_Getting_Started, File_01_Intro, File_02_Intro, File_Notes}
ChapterDirCandidates == {Dir_01_Ch, Dir_02_Getting_Started}
ChapterFileCandidates == {File_01_a, File_01_B}

\* local trees with many shapes
RichTrees ==
    {LocalTree(r, cf) :
        r \in SubsetsUpTo(RootFileCandidates, MaxRootFiles),
        cf \in UNION {[ds -> SubsetsUpTo(ChapterFileCandidates, MaxChapterFiles)] :
                         ds \in SubsetsUpTo(ChapterDirCandidates, MaxChapters)}}

\* local trees with few shapes
SmallTrees ==
    {LocalTree(r, cf) :
        r \in SUBSET {File_01_Intro, File_03_Getting_Started},
        cf \in {<<>>, [d \in {Dir_01_Ch} |-> {File_01_Intro}]}}

TheBook == [id |-> 1, name |-> BookName]
OtherBook == [id |-> 2, name |-> OtherBookName]
RemoteChapter(p) == [id |-> 3, book_id |-> 1, name |-> Title_Ch, priority |-> p]

\* what a remote page holds: markdown equal to "a" up to whitespace, other
\* markdown, HTML only, or neither field
RemoteContents ==
    {[markdown |-> Some(<<"a", "\n">>), html |-> Some(Html_a)],
     [markdown |-> Some(<<"b">>), html |-> Some(ServerRender(<<"b">>))],
     [markdown |-> Nothing, html |-> Some(Html_a)],
     [markdown |-> Nothing, html |-> Nothing]}

RemotePageShapes(chapters) ==
    {[book_id |-> 1, chapter_id |-> c, name |-> Title_Intro, priority |-> p,
      markdown |-> k.markdown, html |-> k.html] :
        c \in {NoChapter} \cup {ch.id : ch \in chapters},
        p \in {1, 2},
        k \in RemoteContents}

WithId(shape, id) ==
    [id |-> id, book_id |-> shape.book_id, chapter_id |-> shape.chapter_id,
     name |-> shape.name, priority |-> shape.priority,
     markdown |-> shape.markdown, html |-> shape.html]

\* servers with at most MaxRemotePages pages named "Intro"
RichRemotes ==
    {[books |-> b, chapters |-> c,
      pages |-> {WithId(ps[i], 3 + i) : i \in DOMAIN ps},
      next_id |-> 4 + MaxRemotePages] :
        b \in SUBSET {TheBook, OtherBook},
        c \in {{}, {RemoteChapter(1)}, {RemoteChapter(2)}},
        ps \in UNION {[1..k -> RemotePageShapes({RemoteChapter(1)})] : k \in 0..MaxRemotePages}}

WellFormed(srv) == \A p \in srv.pages :
    p.chapter_id = NoChapter \/ \E c \in srv.chapters : c.id = p.chapter_id

\* servers with few shapes
SmallRemotes ==
    {[books |-> {TheBook}, chapters |-> {}, pages |-> {}, next_id |-> 4],
     [books |-> {TheBook}, chapters |-> {RemoteChapter(2)},
      pages |-> {[id |-> 4, book_id |-> 1, chapter_id |-> 3, name |-> Title_Intro,
                  priority |-> 2, markdown |-> Some(<<"a">>), html |-> Some(Html_a)]},
      next_id |-> 5]}

InitRun ==
    /\ codec = NoCodec /\ eq = NoEq /\ conv = NoConv /\ img = NoImg /\ lst = NoLst
    /\ pc = "start" /\ exit_status = "running"
    /\ net = Idle /\ log = <<>> /\ loc = LocInit

Init ==
    /\ InitRun
    /\ \/ /\ tool = "sync"
          /\ disk \in SmallTrees
          /\ remote \in {r \in RichRemotes : WellFormed(r)}
          /\ has_markdown \in IF \E p \in remote.pages : ~IsSome(p.markdown)
                              THEN BOOLEAN ELSE {TRUE}
       \/ /\ tool = "sync"
          /\ disk \in RichTrees
          /\ remote \in SmallRemotes
          /\ has_markdown = TRUE
       \/ /\ tool = "download"
          /\ disk = EmptyDisk
          /\ remote \in {r \in RichRemotes : WellFormed(r)}
          /\ has_markdown = FALSE

Next ==
    \/ SendOk
    \/ SendRateLimited
    \/ SendServerError
    \/ SendClientError
    \/ Crash
    \/ SyncFindBook(BookName)
    \/ SyncBookResult(BookName)
    \/ SyncRootPage
    \/ SyncRootFound
    \/ SyncRootCompare
    \/ SyncRootWritten
    \/ SyncChapter
    \/ SyncChapterFound
    \/ SyncChapterCreated
    \/ SyncChapterUpdated
    \/ SyncChapterPage
    \/ SyncChapterPageFound
    \/ SyncChapterPageCompare
    \/ SyncChapterPageWritten
    \/ DlFindBook(BookName)
    \/ DlBookResult(BookName)
    \/ DlRootListed
    \/ DlRootPage
    \/ DlRootWrite
    \/ DlChaptersListed
    \/ DlChapter
    \/ DlChapterPagesListed
    \/ DlChapterPage
    \/ DlChapterPageWrite

Spec == Init /\ [][Next]_vars

----------------------------------------------------------------------------
(* SpecImg: inline_images applied to bounded inputs *)

Dir_s == <<"s">>
Name_a_txt == <<"a", ".", "t", "x", "t">>
Name_b_png == <<"b", ".", "p", "n", "g">>
Name_a_PNG == <<"a", ".", "P", "N", "G">>
Dir_data_image == <<"d", "a", "t", "a", ":", "i", "m", "a", "g", "e">>
Name_png_base64 == <<"p", "n", "g", ";", "b", "a", "s", "e", "6", "4", ",">>

\* a content root with the chapter directory "01 Ch", a text file and a
\* directory "s" in both, and optionally: "a.png" beside the page, "a.png" in
\* the root, "a.PNG" in the root, and a file at the path that a PNG data URI
\* made of the bytes 255 spells out
ImgTree(beside, inRoot, upper, spelled) ==
    [dirs |-> {<<>>, <<Dir_01_Ch>>, <<Dir_s>>, <<Dir_01_Ch, Dir_s>>}
              \cup (IF spelled THEN {<<Dir_data_image>>} ELSE {}),
     files |-> {[path |-> <<Name_a_txt>>, content |-> <<1>>],
                [path |-> <<Dir_01_Ch, Name_a_txt>>, content |-> <<1>>]}
               \cup (IF beside
                     THEN {[path |-> <<Dir_01_Ch, Image_a_png>>, content |-> <<7>>]}
                     ELSE {})
               \cup (IF inRoot
                     THEN {[path |-> <<Image_a_png>>, content |-> <<255, 255, 255>>]}
                     ELSE {})
               \cup (IF upper
                     THEN {[path |-> <<Name_a_PNG>>, content |-> <<0, 16>>]}
                     ELSE {})
               \cup (IF spelled
                     THEN {[path |-> <<Dir_data_image, Name_png_base64>>,
                            content |-> <<9>>]}
                     ELSE {})]

ImgTrees == {ImgTree(b, r, u, d) : b \in BOOLEAN, r \in BOOLEAN, u \in BOOLEAN, d \in BOOLEAN}

\* the references of the pages: an image, a text file, a missing file, a
\* directory, an upper-case extension
ImgRefs == {Image_a_png, Name_a_txt, Name_b_png, Dir_s, Name_a_PNG}

\* ![x](ref), with a title when titled
ImageMarkdown(ref, titled) ==
    <<"!", "[", "x", "]", "(">> \o ref
        \o (IF titled THEN <<" ", "\"", "t", "\"">> ELSE <<>>) \o <<")">>

InitImg ==
    /\ \E fs \in ImgTrees, ref \in ImgRefs, titled \in BOOLEAN,
          page_dir \in {<<>>, <<Dir_01_Ch>>} :
          img = [op |-> "input", fs |-> fs, ref |-> ref, titled |-> titled,
                 page_dir |-> page_dir,
                 markdown |-> <<"a", " ">> \o ImageMarkdown(ref, titled) \o <<"\n">>]
    /\ codec = NoCodec /\ eq = NoEq /\ conv = NoConv /\ lst = NoLst
    /\ RunOff

\* inline_images(markdown, page_dir, content_root)
ImgInline ==
    /\ img.op = "input"
    /\ img' = [img EXCEPT !.op = "inlined"]
                 @@ [out |-> inline_images(img.fs, img.markdown, img.page_dir)]
    /\ UNCHANGED <<codec, eq, conv, lst, run_vars>>

\* inline_images applied to its own output
ImgInlineAgain ==
    /\ img.op = "inlined"
    /\ img' = [img EXCEPT !.op = "reinlined"]
                 @@ [out2 |-> inline_images(img.fs, img.out, img.page_dir)]
    /\ UNCHANGED <<codec, eq, conv, lst, run_vars>>

NextImg == ImgInline \/ ImgInlineAgain

SpecImg == InitImg /\ [][NextImg]_vars

----------------------------------------------------------------------------
(* SpecRerun: the script is run again on what the run before left behind *)

\* most runs in a row
MaxRuns == 2

\* the script is started again after a complete run: same content or output
\* directory, same server; main() begins anew
Rerun ==
    /\ pc = "done" /\ loc.run < MaxRuns
    /\ pc' = "start"
    /\ exit_status' = "running"
    /\ loc' = [LocInit EXCEPT !.run = loc.run + 1]
    /\ log' = <<>>
    /\ net' = Idle
    /\ UNCHANGED <<pure_vars, env_vars, remote>>

Markdown_CR == <<"a", "\r", "\n", "b">>

\* page contents for the repeated download: those of RemoteContents and
\* markdown with a carriage return
RerunContents ==
    RemoteContents
        \cup {[markdown |-> Some(Markdown_CR), html |-> Some(ServerRender(Markdown_CR))]}

RemotePageIn(id, chapter_id, k) ==
    [id |-> id, book_id |-> 1, chapter_id |-> chapter_id, name |-> Title_Intro,
     priority |-> 1, markdown |-> k.markdown, html |-> k.html]

\* servers for the repeated download: one page "Intro" at the root or in the
\* chapter, with every content; and two root pages "Intro" of the same priority
RerunRemotes ==
    {[books |-> {TheBook}, chapters |-> {RemoteChapter(1)},
      pages |-> {RemotePageIn(4, c, k)}, next_id |-> 5] :
        c \in {NoChapter, 3}, k \in RerunContents}
    \cup {[books |-> {TheBook}, chapters |-> {},
           pages |-> {RemotePageIn(4, NoChapter, [markdown |-> Some(<<"a">>),
                                                  html |-> Some(Html_a)]),
                      RemotePageIn(5, NoChapter, [markdown |-> Some(<<"b">>),
                                                  html |-> Some(ServerRender(<<"b">>))])},
           next_id |-> 6]}

Ref_s_a_png == <<"!", "[", "x", "]", "(", "s", "/", "a", ".", "p", "n", "g", ")">>

\* a content root with files and directories below the chapter level: the
\* chapter "01 Ch" holds the page "01 a.md" with the given text and the
\* directory "s" with a page file and an image; "02 Getting_Started" holds
\* nothing but a directory "s" with a page file; dirNamedMd adds a root
\* directory whose name ends in .md
NestedTree(pageText, rootFiles, dirNamedMd) ==
    [dirs |-> {<<>>, <<Dir_01_Ch>>, <<Dir_01_Ch, Dir_s>>,
               <<Dir_02_Getting_Started>>, <<Dir_02_Getting_Started, Dir_s>>}
              \cup (IF dirNamedMd THEN {<<File_Notes>>} ELSE {}),
     files |-> {[path |-> <<f>>, content |-> FileText(f)] : f \in rootFiles}
               \cup {[path |-> <<Dir_01_Ch, File_01_a>>, content |-> pageText],
                     [path |-> <<Dir_01_Ch, Dir_s, File_02_Intro>>, content |-> <<"d">>],
                     [path |-> <<Dir_01_Ch, Dir_s, Image_a_png>>, content |-> <<7>>],
                     [path |-> <<Dir_02_Getting_Started, Dir_s, File_Notes>>,
                      content |-> <<"d">>]}]

NestedTrees ==
    {NestedTree(t, r, m) :
        t \in {<<"b">>, Ref_s_a_png},
        r \in SUBSET {File_01_Intro},
        m \in BOOLEAN}

\* a content root whose root page "01 Intro.md" (text "a") and chapter page
\* "01 Ch/02_Intro.md" (text "b") decode to the same title "Intro"
TwinTitleTree == LocalTree({File_01_Intro}, [d \in {Dir_01_Ch} |-> {File_02_Intro}])

InitRerun ==
    /\ InitRun
    /\ \/ /\ tool = "download"
          /\ disk = EmptyDisk
          /\ remote \in RerunRemotes
          /\ has_markdown = FALSE
       \/ /\ tool = "sync"
          /\ disk \in SmallTrees \cup NestedTrees \cup {TwinTitleTree}
          /\ remote \in SmallRemotes
          /\ has_markdown = TRUE

NextRerun == Next \/ Rerun

SpecRerun == InitRerun /\ [][NextRerun]_vars

----------------------------------------------------------------------------
(* SpecRoundTrip: the downloader fills an empty folder, then the synchronizer
   runs on that folder against the same server *)

\* after a complete download the synchronizer is started on the output folder
ThenSync ==
    /\ tool = "download" /\ pc = "done"
    /\ tool' = "sync"
    /\ pc' = "start"
    /\ exit_status' = "running"
    /\ loc' = [LocInit EXCEPT !.run = 2]
    /\ log' = <<>>
    /\ net' = Idle
    /\ has_markdown' \in BOOLEAN
    /\ UNCHANGED <<pure_vars, disk, remote>>

\* chapters of the round trip: plain and underscored names, priorities of one,
\* two and three digits' worth
RoundTripChapters ==
    {[id |-> 3, book_id |-> 1, name |-> n, priority |-> p] :
        n \in {Title_Ch, Name_Getting_Started}, p \in {1, 2, 100}}

\* pages of the round trip: plain and underscored names, small and three-digit
\* priorities, at the root or in the chapter, with markdown or with html alone
RoundTripPages ==
    {[id |-> 4, book_id |-> 1, chapter_id |-> c, name |-> n, priority |-> p,
      markdown |-> k.markdown, html |-> k.html] :
        c \in {NoChapter, 3},
        n \in {Title_Intro, Name_Getting_Started},
        p \in {1, 100},
        k \in {[markdown |-> Some(<<"a">>), html |-> Some(Html_a)],
               [markdown |-> Nothing, html |-> Some(Html_a)]}}

RoundTripRemotes ==
    {[books |-> {TheBook}, chapters |-> {ch}, pages |-> {pg}, next_id |-> 5] :
        ch \in RoundTripChapters, pg \in RoundTripPages}

InitRoundTrip ==
    /\ InitRun
    /\ tool = "download"
    /\ disk = EmptyDisk
    /\ remote \in RoundTripRemotes
    /\ has_markdown = FALSE

NextRoundTrip == Next \/ ThenSync

SpecRoundTrip == InitRoundTrip /\ [][NextRoundTrip]_vars

----------------------------------------------------------------------------
(* Paginated listings (SpecList): _list_all of the materializer and iter_pages
   of the tagger against a server that holds T matching items and serves them
   `count` per request in a fixed order *)

MaxItems == 5
MaxCount == 2

\* the T matching items the server holds, in the order it lists them
ListItems(T) == [k \in 1..T |-> k]

\* what the response to a page-number request carries besides "data": no
\* "next" field, a "next" link while further pages exist, or always a "next"
NextStyles == {"absent", "when_more", "always"}

\* the response to {"count": count, "page": page}
ListPageNext(items, count, page, style) ==
    [ListPage(items, count, page) EXCEPT
        !.next = CASE style = "absent"    -> FALSE
                   [] style = "when_more" -> page * count < Len(items)
                   [] OTHER               -> TRUE]

\* the "data" of the response to {"count": count, "offset": offset}
ListOffset(items, count, offset) ==
    SubSeq(items, offset + 1,
           IF offset + count < Len(items) THEN offset + count ELSE Len(items))

InitList ==
    /\ lst \in [op : {"input"}, server : {ListItems(T) : T \in 0..MaxItems},
                count : 1..MaxCount, next : NextStyles,
                page : {1}, offset : {0}, items : {<<>>}, requests : {0}]
    /\ codec = NoCodec /\ eq = NoEq /\ conv = NoConv /\ img = NoImg
    /\ RunOff

\* one iteration of the `while True` of _list_all
ListAllRequest ==
    /\ lst.op \in {"input", "list_all"}
    /\ LET j     == ListPageNext(lst.server, lst.count, lst.page, lst.next)
           items == lst.items \o j.data
       IN  lst' = IF list_all_done(j, lst.count)
                  THEN [lst EXCEPT !.op = "listed", !.items = items,
                                   !.requests = @ + 1]
                  ELSE [lst EXCEPT !.op = "list_all", !.items = items,
                                   !.requests = @ + 1, !.page = @ + 1]
    /\ UNCHANGED <<codec, eq, conv, img, run_vars>>

\* one iteration of the `while True` of iter_pages; lst.items are the items
\* yielded so far
IterPagesRequest ==
    /\ lst.op \in {"input", "iter_pages"}
    /\ LET items == ListOffset(lst.server, lst.count, lst.offset)
       IN  lst' = IF items = <<>>
                  THEN [lst EXCEPT !.op = "iterated", !.requests = @ + 1]
                  ELSE [lst EXCEPT
                          !.op = IF Len(items) < lst.count THEN "iterated"
                                 ELSE "iter_pages",
                          !.items = @ \o items,
                          !.offset = @ + Len(items),
                          !.requests = @ + 1]
    /\ UNCHANGED <<codec, eq, conv, img, run_vars>>

NextList == ListAllRequest \/ IterPagesRequest

SpecList == InitList /\ [][NextList]_vars

----------------------------------------------------------------------------
(* Claims about the materializer's writes (SpecRerun) *)

\* C12: write_text_if_changed reports "no-change" for a file that exists with
\* the new content and writes otherwise, so that a second materializer run
\* against the unchanged remote book writes no file, whatever content the
\* remote pages hold.
C12_SecondRunWritesNothing ==
    (tool = "download" /\ loc.run = 2) =>
        \A k \in DOMAIN loc.writes : loc.writes[k].status # "written"

\* the second run writes nothing when no content holds a carriage return and
\* no two pages of a scope share a file name
C12_SecondRunCleanContent ==
    (/\ tool = "download" /\ loc.run = 2
     /\ Cardinality(remote.pages) = 1
     /\ \A p \in remote.pages : ~(IsSome(p.markdown) /\ \E i \in DOMAIN Get(p.markdown) :
                                                           Get(p.markdown)[i] = "\r"))
    => \A k \in DOMAIN loc.writes : loc.writes[k].status # "written"

----------------------------------------------------------------------------
(* Claims about the synchronizer (Spec) *)

\* the log entries a step appends
Appended == SubSeq(log', Len(log) + 1, Len(log'))

\* the remote page with this id
RemotePage(id) == CHOOSE p \in remote.pages : p.id = id

IsWrite(e) == e.method \in {"POST", "PUT"}

\* the write requests logged for the local path src
WritesFor(src) == {k \in DOMAIN log : IsWrite(log[k]) /\ log[k].src = src}

\* the step that follows get_page for a page found remotely, root or chapter
C1_Decision ==
    (tool = "sync" /\ pc \in {"root_get", "page_get"} /\ Returned /\ pc' # pc) =>
        LET root     == pc = "root_get"
            item     == IF root THEN loc.root_pages[loc.i]
                        ELSE loc.chapters[loc.ci].pages[loc.i]
            page_dir == IF root THEN <<>> ELSE loc.chapters[loc.ci].path
            computed == IF root THEN loc.priority ELSE loc.page_order
            existing == RemotePage(Get(loc.existing).id)
            content  == inline_images(disk, ReadText(disk, item.path), page_dir)
            same     == contents_equal(content, Response, has_markdown)
            put(b)   == /\ Len(Appended) = 1
                        /\ Appended[1].method = "PUT"
                        /\ Appended[1].kind = "page"
                        /\ Appended[1].target = existing.id
                        /\ Appended[1].src = item.path
                        /\ Appended[1].body = b
        IN  /\ (same /\ existing.priority = computed) => Appended = <<>>
            /\ (same /\ existing.priority # computed) => put([priority |-> computed])
            /\ ~same => put([markdown |-> content, priority |-> computed])

\* no local page gets a second POST or PUT
C1_OneWrite ==
    \A k, m \in DOMAIN log :
        (IsWrite(log[k]) /\ IsWrite(log[m]) /\ log[k].src = log[m].src) => k = m

\* C1: for a local page whose decoded title was found remotely, equal content and
\* equal priority send nothing, equal content and another priority send exactly
\* one PUT whose body holds priority alone, and unequal content sends exactly one
\* PUT whose body holds the image-inlined file content as markdown and the
\* priority; no page is written twice in a run.
C1_SyncDecision == [][C1_Decision]_vars /\ []C1_OneWrite

\* C1 witness: a root page with equal content was found at another priority and
\* the priority-only PUT has returned
C1_Witness ==
    /\ tool = "sync" /\ pc = "root_write" /\ Returned
    /\ log[Len(log)].method = "PUT"
    /\ DOMAIN log[Len(log)].body = {"priority"}
    /\ Get(loc.existing).priority # loc.priority

\* C2: a root-level lookup selects only a remote page without chapter and a
\* chapter lookup only a page of that chapter, so the page that is compared and
\* written is in the scope of the local file.
C2_LookupInScope ==
    /\ (tool = "sync" /\ pc \in {"root_get", "root_write"} /\ IsSome(loc.existing))
          => Get(loc.existing).chapter_id = NoChapter
    /\ (tool = "sync" /\ pc \in {"page_get", "page_write"} /\ IsSome(loc.existing))
          => Get(loc.existing).chapter_id = Get(loc.chapter).id

\* C2, the chapter half alone: a chapter lookup selects only a page of that chapter
C2_ChapterLookupInScope ==
    (tool = "sync" /\ pc \in {"page_get", "page_write"} /\ IsSome(loc.existing))
        => Get(loc.existing).chapter_id = Get(loc.chapter).id

\* the local root file "03 Getting Started.md"
Path_03_Getting_Started == <<File_03_Getting_Started>>

\* C3 as stated: the page-create request for "03 Getting Started.md" has the name
\* "Getting Started" and the priority 3.
C3_PriorityFromPrefix ==
    \A k \in DOMAIN log :
        (log[k].method = "POST" /\ log[k].src = Path_03_Getting_Started)
            => /\ log[k].body.name = Title_Getting_Started
               /\ log[k].body.priority = 3

\* C3 amended: with no remote page named "Getting Started", the lookup for the
\* root file "03 Getting Started.md" is followed by a page-create request with the
\* name "Getting Started", the image-inlined content, and as priority the
\* position of the file among the root files in sort order.
C3_CreateAtPosition ==
    (/\ tool = "sync"
     /\ pc \in {"root_get", "root_write"}
     /\ loc.root_pages[loc.i].path = Path_03_Getting_Started)
    => /\ pc = "root_write"
       /\ log[Len(log)].method = "POST"
       /\ log[Len(log)].kind = "pages"
       /\ log[Len(log)].body.name = Title_Getting_Started
       /\ log[Len(log)].body.book_id = loc.book_id
       /\ log[Len(log)].body.priority = loc.i

\* C3 witness: "03 Getting Started.md" is the only root file and its page was
\* created with priority 1
C3_Witness ==
    /\ tool = "sync" /\ pc = "root_write" /\ Returned
    /\ Len(loc.root_pages) = 1
    /\ loc.root_pages[1].path = Path_03_Getting_Started
    /\ log[Len(log)].method = "POST"
    /\ log[Len(log)].body.priority = 1
    /\ \E p \in remote.pages : p.name = Title_Getting_Started /\ p.priority = 1

\* the kinds of request in the log of a synchronizer run
IsRootPageEntry(e) == e.kind \in {"pages", "page"} /\ Len(e.src) = 1
IsChapterEntry(e) == e.kind \in {"chapters", "chapter"}
IsChapterPageEntry(e) == e.kind \in {"pages", "page"} /\ Len(e.src) = 2

\* root requests come before chapter requests, and the requests of a chapter
\* before those of its pages
C4_WalkOrder ==
    tool = "sync" =>
        \A i, j \in DOMAIN log :
            i < j =>
                /\ ~((IsChapterEntry(log[i]) \/ IsChapterPageEntry(log[i]))
                     /\ IsRootPageEntry(log[j]))
                /\ ~(/\ IsChapterPageEntry(log[i]) /\ IsChapterEntry(log[j])
                     /\ log[j].src = <<log[i].src[1]>>)
                /\ IsChapterPageEntry(log[i]) =>
                       \E k \in 1..(i - 1) :
                           IsChapterEntry(log[k]) /\ log[k].src = <<log[i].src[1]>>

\* x sorts before y: decoded order ascending with the names without a prefix
\* last, then lowercase title ascending
C4_KeyBefore(x, y) ==
    \/ x.order # Unordered /\ (y.order = Unordered \/ x.order < y.order)
    \/ x.order = y.order /\ StrLess(Lower(x.title), Lower(y.title))

Range(f) == {f[k] : k \in DOMAIN f}

\* the place of item x among the items of its scope, in sort-key order
C4_Position(x, items) == 1 + Cardinality({y \in items : C4_KeyBefore(y, x)})

\* the scopes of a run: the root pages, the chapters, the pages of each chapter
C4_Scopes ==
    {Range(loc.root_pages), Range(loc.chapters)}
        \cup {Range(loc.chapters[c].pages) : c \in DOMAIN loc.chapters}

\* the priorities sent for the items of a scope
C4_Sent(items) ==
    {log[k].body.priority :
        k \in {m \in DOMAIN log : IsWrite(log[m]) /\ \E x \in items : x.path = log[m].src}}

\* every write for an item carries the item's place in its scope as priority
C4_PriorityIsPosition ==
    tool = "sync" =>
        \A items \in C4_Scopes : \A x \in items : \A k \in WritesFor(x.path) :
            log[k].body.priority = C4_Position(x, items)

\* C4 as stated: root requests before chapter requests, each chapter before its
\* pages, and in a complete run the priorities sent for a scope with N items
\* are exactly 1..N.
C4_PrioritiesSentAreOneToN ==
    /\ C4_WalkOrder
    /\ C4_PriorityIsPosition
    /\ (tool = "sync" /\ pc = "done") =>
           \A items \in C4_Scopes : C4_Sent(items) = 1..Cardinality(items)

\* an item is passed over without a write only when the remote object found for
\* it already has the item's place as priority
C4_SkipOnlyAtPosition ==
    (tool = "sync" /\ Returned /\ Appended = <<>>) =>
        /\ (pc = "root_get" /\ pc' = "root_loop") =>
               RemotePage(Get(loc.existing).id).priority
                  = C4_Position(loc.root_pages[loc.i], Range(loc.root_pages))
        /\ (pc = "page_get" /\ pc' = "page_loop") =>
               RemotePage(Get(loc.existing).id).priority
                  = C4_Position(loc.chapters[loc.ci].pages[loc.i],
                                Range(loc.chapters[loc.ci].pages))
        /\ (pc = "chapter_find" /\ pc' = "page_loop") =>
               \E c \in remote.chapters :
                   /\ c.name = loc.chapters[loc.ci].title
                   /\ c.priority = C4_Position(loc.chapters[loc.ci], Range(loc.chapters))

\* C4 amended: root requests come before chapter requests and each chapter
\* before its pages; every POST or PUT for the i-th item of a scope in sort-key
\* order carries priority i, no item is written twice, and an item gets no
\* write only when the remote object found for it already has priority i: the
\* priorities sent for a scope with N items are distinct members of 1..N.
C4_WalkAndPriorities ==
    /\ [](C4_WalkOrder /\ C4_PriorityIsPosition /\ C1_OneWrite)
    /\ [][C4_SkipOnlyAtPosition]_vars

\* C4 witness: a complete run over two root files, one of them without prefix,
\* and a chapter with the pages "01 a.md" and "01 B.md", written as 1 and 2
C4_Witness ==
    /\ tool = "sync" /\ pc = "done"
    /\ Len(loc.root_pages) = 2
    /\ loc.root_pages[2].path = <<File_Notes>>
    /\ C4_Sent(Range(loc.root_pages)) = {1, 2}
    /\ \E c \in DOMAIN loc.chapters :
          /\ Len(loc.chapters[c].pages) = 2
          /\ \E k, m \in DOMAIN log :
                /\ k < m
                /\ log[k].method = "POST" /\ log[m].method = "POST"
                /\ log[k].src = loc.chapters[c].path \o <<File_01_a>>
                /\ log[m].src = loc.chapters[c].path \o <<File_01_B>>
                /\ log[k].body.priority = 1 /\ log[m].body.priority = 2

----------------------------------------------------------------------------
(* Claims about the request helper (Spec) *)

IsTransient(code) == code = 429 \/ (500 <= code /\ code < 600)

\* C5: a call of _request sends at most 5 requests; while it is pending every
\* response so far was transient and attempts remain; it returns with the body
\* of a 2xx response; and it raises on a 429 or 5xx response only when that
\* response answered the 5th request.
C5_RetryBudget ==
    net.state # "idle" =>
        /\ net.sent <= 5
        /\ net.state = "pending" =>
               /\ net.sent = net.attempt /\ net.attempt < 5
               /\ net.resp = Nothing /\ net.error = Nothing
        /\ net.state = "returned" =>
               /\ 200 <= net.status /\ net.status < 300
               /\ IsSome(net.resp)
               /\ net.sent = net.attempt + 1
               /\ net.method = "GET" => Get(net.resp) = ServerHandle(remote, net).data
        /\ (net.state = "raised" /\ IsTransient(net.status)) => net.sent = 5

\* C5 witness: four transient failures, then the 2xx response of the 5th request
\* is returned
C5_Witness ==
    /\ net.state = "returned"
    /\ net.sent = 5
    /\ Len(net.sleeps) = 4

\* a 4xx response other than 429 ended the call
RaisedOn4xx ==
    /\ net.state = "raised"
    /\ 400 <= net.status /\ net.status < 500 /\ net.status # 429

\* the error carries the status and the body, and no sleep followed the response
C6_RaisedAtOnce ==
    RaisedOn4xx =>
        /\ \E text \in ErrorTexts :
              net.error = Some([message |-> "failed", status |-> net.status, text |-> text])
        /\ Len(net.sleeps) = net.sent - 1

\* nothing is sent after the error
C6_NothingAfter ==
    RaisedOn4xx => (net' = net /\ log' = log /\ remote' = remote)

\* C6: a 4xx response other than 429 makes _request raise at once, on any
\* attempt: no sleep and no request follows the response, the error carries the
\* status code and the response body, and the run issues no request after it.
C6_PermanentErrorIsFatal == []C6_RaisedAtOnce /\ [][C6_NothingAfter]_vars

\* C6 witness: the third request of a call was answered 404 and the run has ended
\* with status 1
C6_Witness ==
    /\ RaisedOn4xx
    /\ net.sent = 3 /\ Len(net.sleeps) = 2
    /\ pc = "crashed" /\ exit_status = "1"

\* C7: when no remote book has exactly the configured name, the run ends with
\* exit status 3 once the book lookup has returned; a run that ends with status 3
\* has issued no POST or PUT and has created no local file or directory; and no
\* run ever issues a request that creates a book.
C7_BookAbsent ==
    /\ ((\A b \in remote.books : b.name # BookName) /\ pc \notin {"start", "book", "crashed"})
          => (exit_status = "3" /\ pc = "exit")
    /\ exit_status = "3" =>
          /\ \A k \in DOMAIN log : log[k].method = "GET"
          /\ loc.writes = <<>>
          /\ tool = "download" => disk = EmptyDisk
    /\ \A k \in DOMAIN log : ~(log[k].method = "POST" /\ log[k].kind = "books")

\* C7 witness: the only remote book is "docs", the content directory holds pages,
\* and the synchronizer has stopped with status 3
C7_Witness ==
    /\ tool = "sync"
    /\ remote.books = {OtherBook}
    /\ \E f \in disk.files : f.path = <<File_01_Intro>>
    /\ exit_status = "3"
    /\ Len(log) = 1

\* the materializer has stopped with status 3 in the same case
C7_WitnessDownload ==
    /\ tool = "download"
    /\ remote.books = {OtherBook}
    /\ remote.pages # {}
    /\ exit_status = "3"

\* every backoff sleep so far lasted rate_limit_sleep times the 1-based number
\* of the attempt that failed
C16_LinearBackoff ==
    net.state # "idle" =>
        \A k \in DOMAIN net.sleeps : net.sleeps[k] = RateLimitSleepMs * k

\* C16: every backoff sleep of _request lasts rate_limit_sleep x k after the
\* k-th failed attempt and is followed by another request: when the call has
\* ended, with a result or an error, it has slept fewer times than it has sent
\* requests, after 429 and after 5xx answers alike.
C16_SleepThenRetry ==
    /\ C16_LinearBackoff
    /\ net.state \in {"returned", "raised"} => Len(net.sleeps) < net.sent

\* the same for calls that were never answered 429: no sleep follows the last
\* request
C16_SleepThenRetry5xx ==
    (/\ net.state \in {"returned", "raised"}
     /\ ~(net.state = "raised" /\ net.status = 429))
    => Len(net.sleeps) < net.sent

----------------------------------------------------------------------------
(* Claims about the equivalence detector in a run (Spec) *)

\* the page returned by get_page gives contents_equal nothing to compare with
NothingToCompare(page) ==
    /\ ~IsSome(page.markdown)
    /\ (~IsSome(page.html) \/ ~has_markdown)

\* the step that follows get_page when the page cannot be compared
C11_Step ==
    (/\ tool = "sync" /\ pc \in {"root_get", "page_get"} /\ Returned /\ pc' # pc
     /\ NothingToCompare(Response))
    => /\ \A c \in ContentStrings \cup {loc.transformed_md} :
              ~contents_equal(c, Response, has_markdown)
       /\ Len(Appended) = 1
       /\ Appended[1].method = "PUT"
       /\ Appended[1].target = Get(loc.existing).id
       /\ Appended[1].body =
              [markdown |-> loc.transformed_md,
               priority |-> IF pc = "root_get" THEN loc.priority ELSE loc.page_order]

\* C11: equivalence conservatism. contents_equal is false for every candidate
\* when the remote page has neither a markdown nor an html string, and when it
\* has html only and the markdown renderer is unavailable; the synchronizer then
\* sends the full update (markdown and priority) instead of skipping.
C11_Conservative == [][C11_Step]_vars

\* C11 witness: a remote page without markdown and without html was found and the
\* full update for it is about to be sent
C11_Witness ==
    /\ tool = "sync" /\ pc = "root_write" /\ net.state = "pending" /\ net.sent = 0
    /\ IsSome(loc.existing)
    /\ ~IsSome(RemotePage(Get(loc.existing).id).markdown)
    /\ ~IsSome(RemotePage(Get(loc.existing).id).html)
    /\ DOMAIN net.body = {"markdown", "priority"}

\* the same with an html-only page and no renderer
C11_WitnessNoRenderer ==
    /\ tool = "sync" /\ pc = "root_write" /\ net.state = "pending" /\ net.sent = 0
    /\ IsSome(loc.existing)
    /\ ~has_markdown
    /\ ~IsSome(RemotePage(Get(loc.existing).id).markdown)
    /\ IsSome(RemotePage(Get(loc.existing).id).html)
    /\ DOMAIN net.body = {"markdown", "priority"}

----------------------------------------------------------------------------
(* Claims about the codec (SpecCodec) *)

\* the first character of x after leading whitespace is a digit
StartsWithDigit(x) ==
    LET r == LStrip(x, Whitespace) IN r # <<>> /\ r[1] \in Digits

\* C8: codec round trip. For a title without a leading digit pattern and an order
\* in 0..9999, decoding the encoded name (as a directory name with
\* strip_two_digit_prefix, as a file name with title_from_filename) gives back
\* exactly (order, sanitize_name(title)).
C8_CodecRoundTrip ==
    (/\ codec.op \in {"decoded_dir", "decoded_file"}
     /\ codec.order \in 0..9999
     /\ ~StartsWithDigit(codec.x))
    => codec.out2 = [order |-> codec.order, title |-> sanitize_name(codec.x)]

\* C9: sanitization is idempotent: sanitize_name(sanitize_name(x)) = sanitize_name(x).
C9_SanitizeIdempotent ==
    codec.op = "resanitized" => codec.out2 = codec.out

\* C9 witness: an input with whitespace runs and trailing dots and spaces was
\* sanitized twice, and so was an input that sanitizes to "untitled"
C9_Witness ==
    /\ codec.op = "resanitized"
    /\ codec.x = <<"a", "\t", ".">>
    /\ codec.out = <<"a">>

C9_WitnessUntitled ==
    /\ codec.op = "resanitized"
    /\ codec.x = <<" ", ".", " ">>
    /\ codec.out = Untitled

\* the name starts, after optional whitespace, with two digits and a separator
\* (whitespace, "-" or "_")
C18_HasPrefix(x) ==
    \E w \in 0..Len(x) :
        /\ \A i \in 1..w : x[i] \in {" ", "\t", "\n", "\r"}
        /\ Len(x) >= w + 3
        /\ x[w + 1] \in Digits /\ x[w + 2] \in Digits
        /\ x[w + 3] \in {" ", "\t", "\n", "\r", "-", "_"}

\* C18 as stated: "010 Title" decodes as order 1 with title "0 Title", and a
\* name without a two-digit-plus-separator prefix decodes as unordered with the
\* whole trimmed name.
C18_WidePrefixSplit ==
    codec.op = "decoded_name" =>
        /\ codec.x = Name_010_Title
               => codec.out2 = [order |-> 1, title |-> <<"0", " ">> \o Name_Title]
        /\ (~C18_HasPrefix(codec.x) /\ codec.x # Name_010_Title)
               => codec.out2 = [order |-> Unordered, title |-> Strip(codec.x)]

\* C18: decoding matches two leading digits only when a separator follows them
\* directly: "010 Title" has no such prefix and decodes, like every name
\* without a two-digit-plus-separator prefix, as unordered with the whole
\* trimmed name as title; a name with the prefix decodes to the value of the
\* two digits.
C18_TwoDigitsThenSeparator ==
    codec.op = "decoded_name" =>
        /\ codec.x = Name_010_Title
               => codec.out2 = [order |-> Unordered, title |-> Name_010_Title]
        /\ ~C18_HasPrefix(codec.x)
               => codec.out2 = [order |-> Unordered, title |-> Strip(codec.x)]
        /\ C18_HasPrefix(codec.x)
               => LET w == LeadingRun(codec.x, Whitespace)
                  IN  /\ codec.out2.order =
                             10 * DigitValue(codec.x[w + 1]) + DigitValue(codec.x[w + 2])
                      /\ codec.out2.title =
                             Strip(LStrip(Drop(codec.x, w + 2), PrefixSeparators))

\* C18 witness: "010 Title" decoded as unordered, title "010 Title"
C18_Witness ==
    /\ codec.op = "decoded_name"
    /\ codec.x = Name_010_Title
    /\ codec.out2 = [order |-> Unordered, title |-> Name_010_Title]

----------------------------------------------------------------------------
(* Claims about the equivalence detector (SpecEq) *)

----------------------------------------------------------------------------
(* Claims about the HTML -> Markdown conversion (SpecConv) *)

\* C13, converter order: html_to_markdown returns the normalized output of
\* markdownify when that is non-blank, else the normalized output of html2text
\* when that is non-blank, else the tag-stripping fallback, which always yields
\* a text that ends with a newline.
C13_ConverterOrder ==
    conv.op = "converted" =>
        LET first == conv.lib.markdownify
            second == conv.lib.html2text
            blank(o) == o = Nothing \/ Strip(Get(o)) = <<>>
            html == preprocess_callouts(Strip(Get(conv.page.html)), conv.lib)
        IN  /\ ~blank(first) => conv.out = normalize_converted(Get(first))
            /\ (blank(first) /\ ~blank(second))
                   => conv.out = normalize_converted(Get(second))
            /\ (blank(first) /\ blank(second))
                   => /\ conv.out = basic_strip_html(html)
                      /\ conv.out[Len(conv.out)] = "\n"

\* C13, fallback conversion: a page with html "<p>Hi</p>", no markdown field and
\* no converter available is written as exactly "Hi\n".
C13_FallbackHi ==
    (/\ conv.op = "written"
     /\ conv.page = [markdown |-> Nothing, html |-> Some(Html_Hi)]
     /\ conv.lib.markdownify = Nothing /\ conv.lib.html2text = Nothing)
    => /\ conv.out.status = "written"
       /\ conv.out.fs.files = {[path |-> <<File_Hi>>, content |-> <<"H", "i", "\n">>]}

\* C13: html_to_markdown tries markdownify, then html2text, and returns the
\* post-processed output of the first that yields non-blank text; otherwise it
\* returns the tag-stripping fallback; "<p>Hi</p>" without markdown and without
\* converters is materialized as "Hi\n".
C13_Conversion == C13_ConverterOrder /\ C13_FallbackHi

\* C13 witness: the page "<p>Hi</p>" written as "Hi\n" with no converter
C13_Witness ==
    /\ conv.op = "written"
    /\ conv.page = [markdown |-> Nothing, html |-> Some(Html_Hi)]
    /\ conv.lib = NoConverters
    /\ conv.out.fs.files = {[path |-> <<File_Hi>>, content |-> <<"H", "i", "\n">>]}

\* C13 witness: markdownify yields blank text and the output of html2text is
\* returned
C13_WitnessSecondary ==
    /\ conv.op = "converted"
    /\ conv.lib.markdownify = Some(<<" ", "\n">>)
    /\ conv.lib.html2text = Some(Markdown_Hi)
    /\ conv.out = <<"H", "i", "\n">>

----------------------------------------------------------------------------
(* Claims about the synchronizer's page writes (Spec) *)

\* a request that creates or updates a page
IsPageWrite(e) == IsWrite(e) /\ e.kind \in {"pages", "page"}

\* C17 as stated: every page write, create or update, comes after get_page was
\* called for the same local page (so that contents_equal could be evaluated).
C17_FetchBeforeEveryWrite ==
    tool = "sync" =>
        \A i \in DOMAIN log :
            IsPageWrite(log[i])
                => \E j \in 1..(i - 1) :
                      /\ log[j].method = "GET" /\ log[j].kind = "page"
                      /\ log[j].src = log[i].src

\* the request before every page update is get_page of the same remote page for
\* the same file, and the request before every page create is the find_page
\* lookup for the same file
C17_PrecedingRequest ==
    tool = "sync" =>
        \A i \in DOMAIN log :
            /\ (IsPageWrite(log[i]) /\ log[i].method = "PUT")
                   => /\ i > 1
                      /\ log[i - 1].method = "GET" /\ log[i - 1].kind = "page"
                      /\ log[i - 1].target = log[i].target
                      /\ log[i - 1].src = log[i].src
            /\ (IsPageWrite(log[i]) /\ log[i].method = "POST")
                   => /\ i > 1
                      /\ log[i - 1].method = "GET" /\ log[i - 1].kind = "pages"
                      /\ log[i - 1].src = log[i].src
                      /\ log[i - 1].body.name = log[i].body.name

\* a page update is sent on the answer of get_page, and it carries markdown
\* exactly when contents_equal on the image-inlined file content is false; a
\* page create is sent on the answer of a lookup that lists no page of the title
\* (in the chapter, for a chapter page)
C17_Step ==
    (tool = "sync" /\ Appended # <<>> /\ IsPageWrite(Appended[1])) =>
        LET w        == Appended[1]
            root     == pc \in {"root_find", "root_get"}
            item     == IF root THEN loc.root_pages[loc.i]
                        ELSE loc.chapters[loc.ci].pages[loc.i]
            page_dir == IF root THEN <<>> ELSE loc.chapters[loc.ci].path
            content  == inline_images(disk, ReadText(disk, item.path), page_dir)
        IN  /\ Returned
            /\ w.src = item.path
            /\ w.method = "PUT" =>
                  /\ pc \in {"root_get", "page_get"}
                  /\ Response.id = w.target
                  /\ ("markdown" \in DOMAIN w.body)
                        <=> ~contents_equal(content, Response, has_markdown)
            /\ w.method = "POST" =>
                  /\ pc \in {"root_find", "page_find"}
                  /\ w.body.markdown = content
                  /\ ~\E p \in Response :
                        /\ p.name = item.title /\ p.book_id = loc.book_id
                        /\ root \/ p.chapter_id = Get(loc.chapter).id

\* C17: every page update is preceded, for that page, by fetching the remote
\* page and evaluating contents_equal on the image-inlined local content; a page
\* create is preceded by the lookup that found no page of that title, and the
\* detector is not consulted for it.
C17_DetectorBeforeUpdate == [][C17_Step]_vars /\ []C17_PrecedingRequest

\* C17 witness: one run has created a page and, after get_page, updated another
C17_Witness ==
    /\ tool = "sync"
    /\ \E i, k \in DOMAIN log :
          /\ IsPageWrite(log[i]) /\ log[i].method = "POST"
          /\ IsPageWrite(log[k]) /\ log[k].method = "PUT"
          /\ "markdown" \in DOMAIN log[k].body

----------------------------------------------------------------------------
(* Claims about chapter names (Spec) *)

\* C19: the chapter name used for remote lookup and creation is decoded from
\* the directory name by the codec of page titles: every chapter lookup and
\* every chapter create carries the title that a page file of the same stem
\* would get ("02 Getting_Started" is looked up and created as "Getting
\* Started").
C19_ChapterNameByPageCodec ==
    tool = "sync" =>
        \A i \in DOMAIN log :
            log[i].kind = "chapters"
                => log[i].body.name = title_from_filename(log[i].src[1] \o DotMd).title

\* the chapter requests of directories without "_" or "-" in the name do carry
\* the page title of the stem
C19_PlainChapterNames ==
    tool = "sync" =>
        \A i \in DOMAIN log :
            (log[i].kind = "chapters" /\ log[i].src = <<Dir_01_Ch>>)
                => log[i].body.name = Title_Ch

----------------------------------------------------------------------------
(* Claims about a second synchronizer run (SpecRerun) *)

\* the titles decoded from the entries names are pairwise distinct
DistinctTitles(names, title(_)) ==
    \A x, y \in names : title(x) = title(y) => x = y

\* decoded titles are pairwise distinct within each scope: the root pages, the
\* chapters, and the pages of each chapter
C20_DistinctInScopes ==
    /\ DistinctTitles({p[1] : p \in GlobMd(disk, <<>>)},
                      LAMBDA n : title_from_filename(n).title)
    /\ DistinctTitles({d[1] : d \in FirstLevelDirs(disk)},
                      LAMBDA n : strip_two_digit_prefix(n).title)
    /\ \A d \in FirstLevelDirs(disk) :
          DistinctTitles({p[2] : p \in GlobMd(disk, d)},
                         LAMBDA n : title_from_filename(n).title)

\* no title of a root page is the title of a chapter page, locally or remotely
C20_NoTitleAcrossScopes ==
    LET rootTitles == {title_from_filename(p[1]).title : p \in GlobMd(disk, <<>>)}
    IN  /\ \A d \in FirstLevelDirs(disk) : \A p \in GlobMd(disk, d) :
              title_from_filename(p[2]).title \notin rootTitles
        /\ \A p \in remote.pages : p.chapter_id # NoChapter => p.name \notin rootTitles

\* C20: after a run that completed, with the local tree unchanged, a remote
\* that stores what it was sent and titles pairwise distinct within each scope,
\* the second run sends no POST and no PUT, also when a root page and a chapter
\* page share a title.
C20_SecondSyncWritesNothing ==
    (tool = "sync" /\ loc.run = 2 /\ C20_DistinctInScopes)
        => \A i \in DOMAIN log : ~IsWrite(log[i])

\* the same when no root page shares its title with a chapter page
C20_SecondSyncDistinctTitles ==
    (tool = "sync" /\ loc.run = 2 /\ C20_DistinctInScopes /\ C20_NoTitleAcrossScopes)
        => \A i \in DOMAIN log : ~IsWrite(log[i])

----------------------------------------------------------------------------
(* Claims about the files the synchronizer reads (SpecRerun) *)

\* the tree without everything below the chapter level
Shallow(fs) ==
    [dirs |-> {p \in fs.dirs : Len(p) <= 1},
     files |-> {f \in fs.files : Len(f.path) <= 2}]

\* the tree without the files below the chapter level that are no images
WithoutDeeperPages(fs) ==
    [dirs |-> fs.dirs,
     files |-> {f \in fs.files :
                   Len(f.path) <= 2 \/ SuffixLower(f.path[Len(f.path)]) \in IMG_EXTS}]

\* the requests made so far come from entries of the first two levels: page
\* requests from .md files of the root or of a first-level directory, chapter
\* requests from first-level directories
C14_ShallowSources ==
    \A i \in DOMAIN log :
        LET e == log[i]
        IN  /\ e.kind \in {"pages", "page"}
                => /\ Len(e.src) \in {1, 2}
                   /\ IsFile(disk, e.src)
                   /\ IsMd(e.src[Len(e.src)])
                   /\ "name" \in DOMAIN e.body
                        => e.body.name = title_from_filename(e.src[Len(e.src)]).title
            /\ e.kind \in {"chapters", "chapter"}
                => Len(e.src) = 1 /\ e.src \in disk.dirs

\* the markdown sent for a page is what the tree fs gives for the page's file
MarkdownSentFrom(fs) ==
    \A i \in DOMAIN log :
        "markdown" \in DOMAIN log[i].body
            => log[i].body.markdown =
                   inline_images(fs, ReadText(disk, log[i].src),
                                 SubSeq(log[i].src, 1, Len(log[i].src) - 1))

\* C14 as stated: the synchronizer reads no file below the chapter level and no
\* request is derived from a deeper file or directory, so every request is the
\* one the tree cut below the chapter level gives.
C14_NothingDeeperRead ==
    tool = "sync" => C14_ShallowSources /\ MarkdownSentFrom(Shallow(disk))

\* C14: only .md files directly in the content root become root pages and only
\* .md files directly in a first-level directory become chapter pages; page
\* files and directories below that level are never read and no request is
\* derived from them, while an image a page refers to is read wherever the
\* reference resolves, below the chapter level included.
C14_DeeperPagesIgnored ==
    tool = "sync" => C14_ShallowSources /\ MarkdownSentFrom(WithoutDeeperPages(disk))

\* C14 witness: a finished run over a tree with page files three levels deep
\* that wrote the chapter page referring to the image "s/a.png" below it
C14_Witness ==
    /\ tool = "sync" /\ pc = "done"
    /\ disk = NestedTree(Ref_s_a_png, {File_01_Intro}, FALSE)
    /\ \E i \in DOMAIN log :
          /\ log[i].method = "POST" /\ log[i].kind = "pages"
          /\ log[i].src = <<Dir_01_Ch, File_01_a>>
          /\ log[i].body.markdown # Ref_s_a_png

----------------------------------------------------------------------------
(* Claims about image inlining (SpecImg) *)

\* the file a reference names: in the page's directory if anything exists
\* there under that name, else in the content root
C15_Target ==
    LET beside == img.page_dir \o <<img.ref>>
    IN  IF beside \in img.fs.dirs \/ \E f \in img.fs.files : f.path = beside
        THEN beside ELSE <<img.ref>>

\* the reference names an existing file with a recognized image extension
C15_Recognized ==
    /\ \E f \in img.fs.files : f.path = C15_Target
    /\ \E n \in 1..Len(img.ref) :
          /\ img.ref[n] = "."
          /\ Lower(SubSeq(img.ref, n, Len(img.ref))) \in IMG_EXTS

\* a recognized image is rewritten to the data URI of its bytes, anything else
\* is left as it was
C15_Rewrite ==
    img.op \in {"inlined", "reinlined"} =>
        IF C15_Recognized
        THEN LET bytes == (CHOOSE f \in img.fs.files : f.path = C15_Target).content
             IN  img.out = <<"a", " ", "!", "[", "x", "]", "(">>
                             \o <<"d", "a", "t", "a", ":", "i", "m", "a", "g", "e", "/",
                                  "p", "n", "g", ";", "b", "a", "s", "e", "6", "4", ",">>
                             \o Base64(bytes) \o <<")", "\n">>
        ELSE img.out = img.markdown

\* inlining the inlined text changes nothing
C15_Idempotent == img.op = "reinlined" => img.out2 = img.out

\* C15: a reference that resolves (page directory first, then content root) to
\* an existing file with a recognized image extension is rewritten to a data
\* URI, any other reference is left unchanged character for character, and
\* inline_images applied to its own output returns that output.
C15_Inlining == C15_Rewrite /\ C15_Idempotent

\* C15 witness: "a.png" exists beside the page and in the root, the one beside
\* the page (byte 7) is inlined, the tree holds a file at the path the data URI
\* spells, and the second pass returns the same text
C15_Witness ==
    /\ img.op = "reinlined"
    /\ img.fs = ImgTree(TRUE, TRUE, FALSE, TRUE)
    /\ img.ref = Image_a_png /\ img.page_dir = <<Dir_01_Ch>>
    /\ img.out # img.markdown
    /\ img.out2 = img.out

\* C15 witness: the root image of bytes 255 is inlined as "////" and the data
\* URI, read as a path, names an existing file
C15_WitnessSpelled ==
    /\ img.op = "reinlined"
    /\ img.fs = ImgTree(FALSE, TRUE, FALSE, TRUE)
    /\ img.ref = Image_a_png /\ img.page_dir = <<>>
    /\ img.out # img.markdown
    /\ img.out2 = img.out

----------------------------------------------------------------------------
(* Claims about the round trip (SpecRoundTrip) *)

\* a request that creates a page or a chapter, or that sends page content
C21_CreatesOrRewrites(e) ==
    \/ e.method = "POST"
    \/ e.method = "PUT" /\ "markdown" \in DOMAIN e.body

\* C21: after the materializer has filled an empty folder from a remote book,
\* whatever its names and priorities, the synchronizer run on that folder creates
\* no page and no chapter and sends no page content.
C21_RoundTripWritesNothing ==
    tool = "sync" => \A i \in DOMAIN log : ~C21_CreatesOrRewrites(log[i])

\* the names of the book hold no "_", its priorities have at most two digits,
\* and the synchronizer can render markdown (to compare with a page that has
\* html alone)
C21_PlainBook ==
    /\ \A c \in remote.chapters : c.name = Title_Ch /\ c.priority < 100
    /\ \A q \in remote.pages : q.name = Title_Intro /\ q.priority < 100
    /\ has_markdown

\* the round trip of such a book creates nothing and rewrites nothing
C21_RoundTripPlainBook ==
    (tool = "sync" /\ C21_PlainBook)
        => \A i \in DOMAIN log : ~C21_CreatesOrRewrites(log[i])

----------------------------------------------------------------------------
(* Claims about the pages a run leaves on the server (Spec) *)

\* everything the server holds was created by this run: the book was empty
\* when the run began
C22_BookWasEmpty ==
    /\ Cardinality(remote.pages) =
          Cardinality({i \in DOMAIN log : log[i].method = "POST" /\ log[i].kind = "pages"})
    /\ Cardinality(remote.chapters) =
          Cardinality({i \in DOMAIN log : log[i].method = "POST" /\ log[i].kind = "chapters"})

\* the remote pages of scope chapter_id are as many as the page files, and each
\* page file has its remote page: its title, its inlined text
C22_ScopeMirrors(files, page_dir, chapter_id) ==
    LET pages == {q \in remote.pages : q.chapter_id = chapter_id}
    IN  /\ Cardinality(pages) = Cardinality(files)
        /\ \A f \in files :
              \E q \in pages :
                  /\ q.name = title_from_filename(f[Len(f)]).title
                  /\ q.markdown = Some(inline_images(disk, ReadText(disk, f), page_dir))

\* every scope of the local tree is mirrored by the server
C22_AllScopesMirror ==
    /\ C22_ScopeMirrors(GlobMd(disk, <<>>), <<>>, NoChapter)
    /\ \A d \in FirstLevelDirs(disk) :
          GlobMd(disk, d) # {}
              => \E c \in remote.chapters :
                    C22_ScopeMirrors(GlobMd(disk, d), d, c.id)

\* C22: after a complete run against a book that was empty, each scope holds as
\* many remote pages as the local scope has .md files and each remote page holds
\* the inlined content of its own file, also when two file names of a scope
\* decode to the same title.
C22_OnePagePerFile ==
    (tool = "sync" /\ pc = "done" /\ C22_BookWasEmpty) => C22_AllScopesMirror

\* the same for trees whose decoded titles are pairwise distinct in each scope
C22_OnePagePerTitle ==
    (tool = "sync" /\ pc = "done" /\ C22_BookWasEmpty /\ C20_DistinctInScopes)
        => C22_AllScopesMirror

----------------------------------------------------------------------------
(* Claims about paginated listings (SpecList) *)

\* C23 (as stated): when _list_all has returned, it has returned all T items of
\* the server exactly once and in order, whatever T and `count` are and
\* whether or not the responses carry a truthy "next".
C23_ListAllComplete ==
    lst.op = "listed" => lst.items = lst.server

\* C23, the part the code keeps: against a server whose responses carry a
\* truthy "next" while further pages exist, _list_all returns all T items
\* exactly once.
C23_ListAllCompleteWithNext ==
    (lst.op = "listed" /\ lst.next # "absent") => lst.items = lst.server

\* C23, what the code does without "next": _list_all returns the first page
\* only, which is the whole listing only when T <= count.
C23_ListAllFirstPageOnly ==
    (lst.op = "listed" /\ lst.next = "absent")
        => /\ lst.requests = 1
           /\ lst.items = ListOffset(lst.server, lst.count, 0)

\* C23, the offset style: when iter_pages is exhausted it has yielded all T
\* items exactly once.
C23_IterPagesComplete ==
    lst.op = "iterated" => lst.items = lst.server

\* C23, termination: neither loop sends more than T / count + 1 requests.
C23_RequestsBounded ==
    lst.op # "off" => lst.requests <= (Len(lst.server) \div lst.count) + 1

\* a listing of more items than one page holds has ended
C23_Witness ==
    /\ lst.op \in {"listed", "iterated"}
    /\ Len(lst.server) > lst.count

====
